---- MODULE Spec2Model ----
(***************************************************************************)
(* A model of the shop_scraping pipeline: the bulk loader                  *)
(* (uploader/db_uploader.py), the provider fallback and the keyword        *)
(* dispatchers (scrapers/), and the campaign loop of main.py.              *)
(*                                                                         *)
(* Python values are tagged records, so that None, NaN, strings, numbers   *)
(* and containers can be told apart the way isinstance() and truth tests   *)
(* tell them apart.  Strings are sequences of one-character strings, so    *)
(* that split() and strip() are computed, not assumed.                     *)
(***************************************************************************)
EXTENDS Integers, Sequences, FiniteSets, Bags, TLC

VARIABLES
    \* ---- upload_scrape_data (uploader/db_uploader.py) ----
    records,             \* the records argument: a sequence of dicts
    upl_pc,              \* position inside upload_scrape_data
    main_insert_values,  \* the tuples built for the parent INSERT
    returned,            \* what execute_values(..., fetch=True) gave back
    inserted_ids,        \* the normalized ids
    filter_rows,         \* the (id, category, value) rows built by the zip
    txn_parent,          \* parent rows written in the open transaction
    txn_filter,          \* filter rows written in the open transaction
    db_parent,           \* committed rows of scrape_data
    db_filter,           \* committed rows of scrape_data_filter
    upl_result,          \* the call's outcome: a returned list or an exception
    upl_args,            \* the campaign_id and scrape_type_id arguments
    \* ---- fetch_popular_products (scrapers/popular_products.py) ----
    f_keyword,           \* the keyword argument
    f_top_n,             \* the top_n argument
    f_primary,           \* what ScrapingDog answers for the keyword
    f_secondary,         \* what ValueSERP answers for the keyword
    f_pc,                \* position inside fetch_popular_products
    f_results,           \* the local variable results
    f_calls,             \* the provider calls and sleeps made so far, in order
    f_return,            \* the list fetch_popular_products returned
    \* ---- scrape_for_keywords / scrape_shopping_tab_for_keywords ----
    d_scraper,           \* which dispatcher runs: "popular" or "shopping"
    d_keywords,          \* the keywords argument
    d_parallel,          \* the parallel argument
    d_outcome,           \* per keyword, what its providers answer in this run
    PARALLEL_REQUESTS,   \* the pool size read from the environment
    d_pc,                \* position inside the dispatcher
    d_i,                 \* the sequential loop's index into keywords
    d_task,              \* per submitted keyword, the state of its future
    d_future,            \* per finished keyword, the result held by its future
    all_records,         \* the list the dispatcher extends
    d_order,             \* the keywords in the order their results were merged
    d_return,            \* the list the dispatcher returned
    \* ---- main (main.py) ----
    m_pc,                \* position inside main()
    campaigns,           \* the list get_active_campaigns returned
    m_idx,               \* the campaign loop's index into campaigns
    keywords,            \* the current campaign's keywords
    raw_records,         \* the records of the scrape about to be uploaded
    popular_count,       \* the current campaign's popular_count
    shopping_count,      \* the current campaign's shopping_count
    keywords_with_no_popular,
    errors,              \* summary.errors
    campaigns_processed, \* summary.campaigns_processed
    total_keywords,      \* summary.total_keywords
    total_popular_products,
    total_shopping_products,
    end_time,            \* whether summary.end_time is set
    m_sends,             \* the calls of send_scraping_summary, in order
    m_committed,         \* the scrape_data rows committed by this run
    m_log,               \* what the run did and what failed, in order
    m_swallowed,         \* whether a keyword's fetch failed inside a scraper
    \* ---- one batch from the provider's answer to the parent INSERT ----
    p_path,              \* "scrapingdog", "valueserp" or "shopping"
    p_items,             \* the items of the provider's answer
    p_filters,           \* the filters of a shopping answer
    p_pc,                \* position in the pipeline
    p_records,           \* the records the adapter returned
    p_frame,             \* pd.DataFrame(records)
    p_clean,             \* the cleaner's frame
    p_usage,             \* api_usage and api_usage_str of main
    p_rows,              \* the tuples inserted into scrape_data
    \* ---- one call of a cleaner, a parser or the filter encoding ----
    c_fn,                \* the function called
    c_arg,               \* its argument
    c_pc,                \* "start", then "returned" or "raised"
    c_out,               \* what it returned
    \* ---- SlackNotifier.send_scraping_summary (slack_notifier.py) ----
    n_token,             \* whether self.token (and so self.client) is set
    summary_data,        \* campaigns_processed of the summary handed in
    n_pc,                \* position inside send_scraping_summary
    csv_path,            \* the local csv_path: None or the temporary file
    failed_count,        \* the local failed_count
    message_blocks,      \* the local message_blocks
    n_channel,           \* what the Slack channel received, in order
    n_files,             \* the temporary files on disk
    n_return             \* what send_scraping_summary returned

uplVars == <<records, upl_pc, main_insert_values, returned, inserted_ids,
             filter_rows, txn_parent, txn_filter, db_parent, db_filter,
             upl_result, upl_args>>

fetchVars == <<f_keyword, f_top_n, f_primary, f_secondary, f_pc, f_results,
               f_calls, f_return>>

dispVars == <<d_scraper, d_keywords, d_parallel, d_outcome, PARALLEL_REQUESTS,
              d_pc, d_i, d_task, d_future, all_records, d_order, d_return>>

mainVars == <<m_pc, campaigns, m_idx, keywords, raw_records, popular_count,
              shopping_count, keywords_with_no_popular, errors,
              campaigns_processed, total_keywords, total_popular_products,
              total_shopping_products, end_time, m_sends, m_committed, m_log,
              m_swallowed>>

pipeVars == <<p_path, p_items, p_filters, p_pc, p_records, p_frame, p_clean,
              p_usage, p_rows>>

callVars == <<c_fn, c_arg, c_pc, c_out>>

notifyVars == <<n_token, summary_data, n_pc, csv_path, failed_count,
                message_blocks, n_channel, n_files, n_return>>

vars == <<uplVars, fetchVars, dispVars, mainVars, pipeVars, callVars,
          notifyVars>>

\* What each component leaves alone: the variables of the others.
notUplVars == <<fetchVars, dispVars, mainVars, pipeVars, callVars,
    notifyVars>>
notFetchVars == <<uplVars, dispVars, mainVars, pipeVars, callVars,
    notifyVars>>
notDispVars == <<uplVars, fetchVars, mainVars, pipeVars, callVars,
    notifyVars>>
notMainVars == <<uplVars, fetchVars, dispVars, pipeVars, callVars,
    notifyVars>>
notPipeVars == <<uplVars, fetchVars, dispVars, mainVars, callVars,
    notifyVars>>
notCallVars == <<uplVars, fetchVars, dispVars, mainVars, pipeVars, notifyVars>>
notNotifyVars == <<uplVars, fetchVars, dispVars, mainVars, pipeVars, callVars>>

----------------------------------------------------------------------------
(* Bounds of the model *)

MaxRecords == 2      \* longest batch handed to upload_scrape_data
MaxItems == 2        \* most items in one provider payload
MaxKeywords == 3     \* longest keyword list handed to a dispatcher
MaxWorkers == 2      \* largest pool size configured
MaxCampaigns == 2    \* most active campaigns in one run
MaxCampaignKeywords == 2  \* most keywords of one campaign
MaxRows == 2         \* most rows of a frame handed to a cleaner
MaxText == 4         \* longest reviews text handed to parse_reviews_count
MaxPairs == 2        \* most (category, value) pairs of one filters string
MaxPart == 2         \* longest category or value text of a pair

----------------------------------------------------------------------------
(* Python values *)

None == [t |-> "none"]
NaN == [t |-> "nan"]
Str(s) == [t |-> "str", s |-> s]
Num(n) == [t |-> "num", n |-> n]
Bool(b) == [t |-> "bool", b |-> b]
PyList(v) == [t |-> "list", v |-> v]
PyTuple(v) == [t |-> "tuple", v |-> v]

\* Python's truth test, as used by `x or ""` and `if not x`.
Truthy(v) ==
    CASE v.t = "none" -> FALSE
      [] v.t = "nan" -> TRUE
      [] v.t = "str" -> v.s # <<>>
      [] v.t = "num" -> v.n # 0
      [] v.t = "bool" -> v.b
      [] v.t \in {"list", "tuple"} -> v.v # <<>>
      [] v.t = "dec" -> v.m # 0
      [] v.t \in {"inf", "ts"} -> TRUE

\* a or b
PyOr(a, b) == IF Truthy(a) THEN a ELSE b

\* dict.get(key) and dict.get(key, default): a dict is a function on its keys.
Get(rec, key) == IF key \in DOMAIN rec THEN rec[key] ELSE None
GetDefault(rec, key, default) == IF key \in DOMAIN rec THEN rec[key] ELSE default

Range(s) == {s[i] : i \in DOMAIN s}

----------------------------------------------------------------------------
(* str.split, str.strip and the `in` test, on sequences of characters *)

\* First index at which sub occurs in s, 0 when it does not occur.
Find(s, sub) ==
    LET hits == {i \in 1..(Len(s) - Len(sub) + 1) :
                    SubSeq(s, i, i + Len(sub) - 1) = sub}
    IN IF hits = {} THEN 0 ELSE CHOOSE i \in hits : \A j \in hits : i <= j

RECURSIVE Split(_, _)
\* s.split(sep): every piece between occurrences of sep, empty pieces kept.
Split(s, sep) ==
    LET i == Find(s, sep)
    IN IF i = 0 THEN <<s>>
       ELSE <<SubSeq(s, 1, i - 1)>> \o Split(SubSeq(s, i + Len(sep), Len(s)), sep)

\* s.split(sep, 1) when sep occurs in s: the text before and after the first sep.
SplitOnce(s, sep) ==
    LET i == Find(s, sep)
    IN <<SubSeq(s, 1, i - 1), SubSeq(s, i + Len(sep), Len(s))>>

RECURSIVE Strip(_)
\* s.strip(): leading and trailing blanks removed.
Strip(s) ==
    IF s = <<>> THEN s
    ELSE IF Head(s) = " " THEN Strip(Tail(s))
    ELSE IF s[Len(s)] = " " THEN Strip(SubSeq(s, 1, Len(s) - 1))
    ELSE s

RECURSIVE SelectNonEmpty(_)
SelectNonEmpty(parts) ==
    IF parts = <<>> THEN <<>>
    ELSE IF Strip(Head(parts)) # <<>>
         THEN <<Strip(Head(parts))>> \o SelectNonEmpty(Tail(parts))
         ELSE SelectNonEmpty(Tail(parts))

RECURSIVE PairsOf(_)
PairsOf(parts) ==
    IF parts = <<>> THEN <<>>
    ELSE LET part == Head(parts)
             cv == SplitOnce(part, <<" ", "-", " ">>)
         IN IF Find(part, <<" ", "-", " ">>) # 0
            THEN <<  <<Strip(cv[1]), Strip(cv[2])>>  >> \o PairsOf(Tail(parts))
            ELSE PairsOf(Tail(parts))

\* parse_filters_raw: the (category, value) pairs of a raw filters string.
parse_filters_raw(filters_raw) ==
    IF ~Truthy(filters_raw) \/ filters_raw.t # "str" THEN <<>>
    ELSE PairsOf(SelectNonEmpty(Split(filters_raw.s, <<",">>)))

----------------------------------------------------------------------------
(* upload_scrape_data: the tuples of the parent INSERT *)

\* _none_if_nan: a float NaN becomes None, anything else is unchanged.
none_if_nan(val) == IF val.t = "nan" THEN None ELSE val

\* A mutation of EmptyToNone: the empty string is stored as it is.
EmptyKept(val) == val

\* `None if x == "" else x`: the empty string becomes None.
EmptyToNone(val) == IF val = Str(<<>>) THEN None ELSE val

\* One pass of the loop that builds main_insert_values, for one record.
BuildTuple(rec, campaign_id, scrape_type_id) ==
    LET pid_raw == Get(rec, "product_id")
        link_raw == PyOr(Get(rec, "link"), Str(<<>>))
    IN [campaign_id |-> Num(campaign_id),
        scrape_type_id |-> Num(scrape_type_id),
        scrape_date |-> PyOr(Get(rec, "date"), Get(rec, "scrape_date")),
        keyword |-> Get(rec, "keyword"),
        position |-> none_if_nan(Get(rec, "position")),
        product_id |-> EmptyToNone(pid_raw),
        title |-> PyOr(Get(rec, "title"), Str(<<>>)),
        link |-> EmptyToNone(link_raw),
        rating |-> none_if_nan(Get(rec, "rating")),
        reviews |-> none_if_nan(Get(rec, "reviews")),
        price |-> none_if_nan(Get(rec, "price")),
        price_raw |-> PyOr(Get(rec, "price_raw"), Str(<<>>)),
        merchant |-> PyOr(Get(rec, "merchant"), Str(<<>>)),
        is_carousel |-> GetDefault(rec, "is_carousel", Bool(FALSE)),
        carousel_position |-> Get(rec, "carousel_position"),
        has_product_page |-> GetDefault(rec, "has_product_page", Bool(FALSE))]

BuildTuples(recs, campaign_id, scrape_type_id) ==
    [i \in 1..Len(recs) |-> BuildTuple(recs[i], campaign_id, scrape_type_id)]

----------------------------------------------------------------------------
(* upload_scrape_data: the ids that come back from INSERT ... RETURNING id *)

\* What one item of a page contributes to normalized_ids: item[0] of a tuple,
\* an int itself (a bool is an int to isinstance), nothing for anything else.
\* Num stands for an int here: ids are never floats.
ItemIds(item) ==
    IF item.t = "tuple" THEN <<item.v[1]>>
    ELSE IF item.t \in {"num", "bool"} THEN <<item>>
    ELSE <<>>

RECURSIVE NormalizeItems(_)
\* The inner loop over the items of one page; item[0] of an empty tuple raises.
NormalizeItems(items) ==
    IF items = <<>> THEN [raised |-> FALSE, ids |-> <<>>]
    ELSE LET h == Head(items)
             rest == NormalizeItems(Tail(items))
         IN IF h.t = "tuple" /\ h.v = <<>> THEN [raised |-> TRUE, ids |-> <<>>]
            ELSE IF rest.raised THEN rest
            ELSE [raised |-> FALSE, ids |-> ItemIds(h) \o rest.ids]

\* `for item in page`: a list or a tuple yields its elements, a string its
\* characters, anything else is not iterable.
IsIterable(page) == page.t \in {"list", "tuple", "str"}
Elements(page) ==
    IF page.t = "str" THEN [i \in 1..Len(page.s) |-> Str(<<page.s[i]>>)]
    ELSE page.v

RECURSIVE NormalizePages(_)
NormalizePages(pages) ==
    IF pages = <<>> THEN [raised |-> FALSE, ids |-> <<>>]
    ELSE LET h == Head(pages)
             here == IF IsIterable(h) THEN NormalizeItems(Elements(h))
                     ELSE [raised |-> TRUE, ids |-> <<>>]
             rest == NormalizePages(Tail(pages))
         IN IF here.raised THEN here
            ELSE IF rest.raised THEN rest
            ELSE [raised |-> FALSE, ids |-> here.ids \o rest.ids]

\* Step 4 of upload_scrape_data: returned, flattened into a list of ids.
NormalizeReturned(ret) ==
    IF ret.t = "list"
    THEN IF ret.v # <<>> /\ ret.v[1].t = "list"
         THEN NormalizePages(ret.v)
         ELSE NormalizeItems(ret.v)
    ELSE IF ret.t = "tuple"
    THEN IF ret.v = <<>> THEN [raised |-> TRUE, ids |-> <<>>]
         ELSE [raised |-> FALSE, ids |-> <<ret.v[1]>>]
    ELSE IF ret.t \in {"num", "bool"} THEN [raised |-> FALSE, ids |-> <<ret>>]
    ELSE [raised |-> FALSE, ids |-> <<>>]

\* A mutation of CountMismatch: the sanity check never fires.
CountNeverChecked(ids, recs) == FALSE

\* Step 5: the sanity check that raises RuntimeError.
CountMismatch(ids, recs) == Len(ids) # Len(recs)

Min(a, b) == IF a <= b THEN a ELSE b

RECURSIVE RowsFor(_, _)
\* The inner loop of step 6 for one record: one row per parsed pair.
RowsFor(new_id, pairs) ==
    IF pairs = <<>> THEN <<>>
    ELSE <<[scrape_data_id |-> new_id,
            filter_category |-> Head(pairs)[1],
            filter_value |-> Head(pairs)[2]]>> \o RowsFor(new_id, Tail(pairs))

RECURSIVE ZipFilterRows(_, _, _)
\* Step 6: zip(records, inserted_ids), which stops at the shorter of the two.
ZipFilterRows(recs, ids, i) ==
    IF i > Min(Len(recs), Len(ids)) THEN <<>>
    ELSE RowsFor(ids[i], parse_filters_raw(Get(recs[i], "filters_raw")))
            \o ZipFilterRows(recs, ids, i + 1)

\* A mutation of BuildFilterRows: the ids are paired from the wrong end.
BuildFilterRowsCrossed(recs, ids) ==
    ZipFilterRows(recs, [i \in 1..Len(ids) |-> ids[Len(ids) + 1 - i]], 1)

BuildFilterRows(recs, ids) == ZipFilterRows(recs, ids, 1)

\* A mutation of TableAfterException: what the failed call wrote stays.
TableKeepsPending(committed, pending) == committed \o pending

\* `with get_connection() as conn`: leaving the block by an exception rolls the
\* transaction back, so a table keeps what was committed before.
TableAfterException(committed, pending) == committed

\* conn.commit(): the rows written in the transaction become durable.
TableAfterCommit(committed, pending) == committed \o pending

----------------------------------------------------------------------------
(* upload_scrape_data: the batches it is called with *)

S(str) == Str(str)

\* Every column holds an ordinary value; one facet.
RecValued ==
    [scrape_date |-> S(<<"d">>), keyword |-> S(<<"k">>), position |-> Num(1),
     product_id |-> S(<<"p">>), title |-> S(<<"t">>), link |-> S(<<"l">>),
     rating |-> Num(4), reviews |-> Num(7), price |-> Num(2),
     price_raw |-> S(<<"$", "2">>), merchant |-> S(<<"m">>),
     is_carousel |-> Bool(FALSE), carousel_position |-> None,
     has_product_page |-> Bool(TRUE),
     filters_raw |-> S(<<"a", " ", "-", " ", "x">>)]

\* Empty strings and NaN numerics; the legacy 'date' key.
RecEmpty ==
    [date |-> S(<<"d">>), keyword |-> S(<<"k">>), position |-> NaN,
     product_id |-> S(<<>>), title |-> S(<<>>), link |-> S(<<>>),
     rating |-> NaN, reviews |-> NaN, price |-> NaN,
     price_raw |-> S(<<>>), merchant |-> S(<<>>),
     is_carousel |-> Bool(FALSE), carousel_position |-> NaN,
     has_product_page |-> Bool(FALSE), filters_raw |-> S(<<>>)]

\* Every key present and None.
RecNone ==
    [k \in {"scrape_date", "keyword", "position", "product_id", "title", "link",
            "rating", "reviews", "price", "price_raw", "merchant", "is_carousel",
            "carousel_position", "has_product_page", "filters_raw"} |-> None]

\* Only the keyword: every other key is missing from the dict.
RecAbsent == [k \in {"keyword"} |-> S(<<"k">>)]

\* What a DataFrame gives for missing text (NaN); an empty id beside a link;
\* three segments of filter text, the middle one without a separator.
RecPandas ==
    [scrape_date |-> S(<<"d">>), keyword |-> S(<<"j">>), position |-> Num(0),
     product_id |-> S(<<>>), title |-> NaN, link |-> S(<<"l">>),
     rating |-> None, reviews |-> Num(0), price |-> None,
     price_raw |-> NaN, merchant |-> NaN,
     is_carousel |-> Bool(TRUE), carousel_position |-> Num(2),
     has_product_page |-> Bool(TRUE),
     filters_raw |-> S(<<"a", " ", "-", " ", "x", ",", " ", "j", ",",
                         " ", "b", " ", "-", " ", "y">>)]

RecordSet == {RecValued, RecEmpty, RecNone, RecAbsent, RecPandas}

SeqsUpTo(set, n) == UNION {[1..k -> set] : k \in 0..n}

\* The ids the database gives the rows of one multi-row INSERT, in row order.
AssignedIds(first, n) == [i \in 1..n |-> first + i - 1]

Reverse(s) == [i \in 1..Len(s) |-> s[Len(s) + 1 - i]]

\* Results execute_values(..., fetch=True) may hand back for rows given the ids
\* `ids`: m of them (fewer, all, or one too many), in one of the row shapes a
\* cursor produces (tuples, bare ints, DictRow lists), as one page of tuples,
\* as a bare tuple or int, as rows of another type, or nothing.
GivenIds(ids, m) ==
    [i \in 1..m |-> IF i <= Len(ids) THEN ids[i] ELSE ids[Len(ids)] + 1]

ReturnedOfShape(shape, g) ==
    CASE shape = "tuples" -> PyList([i \in 1..Len(g) |-> PyTuple(<<Num(g[i])>>)])
      [] shape = "ints" -> PyList([i \in 1..Len(g) |-> Num(g[i])])
      [] shape = "rows" -> PyList([i \in 1..Len(g) |-> PyList(<<Num(g[i])>>)])
      [] shape = "page" ->
            PyList(<<PyList([i \in 1..Len(g) |-> PyTuple(<<Num(g[i])>>)])>>)
      [] shape = "rows_then_int" ->
            PyList([i \in 1..Len(g) |->
                      IF i = 1 THEN PyList(<<Num(g[i])>>) ELSE Num(g[i])])
      [] shape = "empty_tuples" -> PyList([i \in 1..Len(g) |-> PyTuple(<<>>)])
      [] shape = "strs" -> PyList([i \in 1..Len(g) |-> S(<<"7">>)])
      [] shape = "tuple" -> PyTuple([i \in 1..Len(g) |-> Num(g[i])])
      [] shape = "int" -> IF g = <<>> THEN None ELSE Num(g[1])
      [] shape = "none" -> None

Shapes == {"tuples", "ints", "rows", "page", "rows_then_int", "empty_tuples",
           "strs", "tuple", "int", "none"}

ReturnedSet(ids) ==
    {ReturnedOfShape(shape, GivenIds(order, m)) :
        shape \in Shapes, m \in 0..(Len(ids) + 1), order \in {ids, Reverse(ids)}}

----------------------------------------------------------------------------
(* upload_scrape_data: the call, step by step *)

UplInit ==
    /\ records \in SeqsUpTo(RecordSet, MaxRecords)
    /\ upl_args \in [campaign_id : {1}, scrape_type_id : {1, 2}]
    /\ upl_pc = "start"
    /\ main_insert_values = <<>>
    /\ returned = None
    /\ inserted_ids = <<>>
    /\ filter_rows = <<>>
    /\ txn_parent = <<>>
    /\ txn_filter = <<>>
    /\ db_parent = <<>>
    /\ db_filter = <<>>
    /\ upl_result = [kind |-> "running"]

\* No upload in progress: the state of a run that never calls the loader.
UplIdle ==
    /\ records = <<>>
    /\ upl_args = [campaign_id |-> 1, scrape_type_id |-> 1]
    /\ upl_pc = "idle"
    /\ main_insert_values = <<>>
    /\ returned = None
    /\ inserted_ids = <<>>
    /\ filter_rows = <<>>
    /\ txn_parent = <<>>
    /\ txn_filter = <<>>
    /\ db_parent = <<>>
    /\ db_filter = <<>>
    /\ upl_result = [kind |-> "idle"]

\* An exception leaves the `with` block: the transaction is rolled back and the
\* exception goes to the caller.
UplRaise(error) ==
    /\ upl_pc' = "done"
    /\ upl_result' = [kind |-> "raised", error |-> error]
    /\ db_parent' = TableAfterException(db_parent, txn_parent)
    /\ db_filter' = TableAfterException(db_filter, txn_filter)
    /\ txn_parent' = <<>>
    /\ txn_filter' = <<>>

\* Step 1, and the early return for an empty batch.
UploadBuild ==
    /\ UNCHANGED notUplVars
    /\ upl_pc = "start"
    /\ main_insert_values' =
          BuildTuples(records, upl_args.campaign_id, upl_args.scrape_type_id)
    /\ IF main_insert_values' = <<>>
       THEN /\ upl_pc' = "done"
            /\ upl_result' = [kind |-> "returned", ids |-> <<>>]
       ELSE /\ upl_pc' = "built"
            /\ UNCHANGED upl_result
    /\ UNCHANGED <<records, upl_args, returned, inserted_ids, filter_rows,
                   txn_parent, txn_filter, db_parent, db_filter>>

\* get_connection(): a connection, or the driver's error.
UploadConnect ==
    /\ UNCHANGED notUplVars
    /\ upl_pc = "built"
    /\ \/ /\ upl_pc' = "connected"
          /\ UNCHANGED <<upl_result, txn_parent, txn_filter, db_parent, db_filter>>
       \/ UplRaise("OperationalError")
    /\ UNCHANGED <<records, upl_args, main_insert_values, returned, inserted_ids,
                   filter_rows>>

\* Step 3: the parent INSERT ... RETURNING id. The database writes one row per
\* tuple and numbers them in row order; what comes back is the driver's.
UploadParentInsert ==
    /\ UNCHANGED notUplVars
    /\ upl_pc = "connected"
    /\ \/ LET ids == AssignedIds(Len(db_parent) + 11, Len(main_insert_values))
          IN /\ txn_parent' = [i \in 1..Len(main_insert_values) |->
                                  [id |-> ids[i], row |-> main_insert_values[i]]]
             /\ returned' \in ReturnedSet(ids)
             /\ upl_pc' = "inserted"
             /\ UNCHANGED <<upl_result, txn_filter, db_parent, db_filter>>
       \/ /\ UplRaise("DatabaseError")
          /\ UNCHANGED returned
    /\ UNCHANGED <<records, upl_args, main_insert_values, inserted_ids, filter_rows>>

\* Steps 4 to 6: normalize, check the count, zip records with ids.
UploadNormalize ==
    /\ UNCHANGED notUplVars
    /\ upl_pc = "inserted"
    /\ LET norm == NormalizeReturned(returned)
       IN IF norm.raised
          THEN /\ UplRaise("TypeError")
               /\ UNCHANGED <<inserted_ids, filter_rows>>
          ELSE /\ inserted_ids' = norm.ids
               /\ IF CountMismatch(norm.ids, records)
                  THEN /\ UplRaise("RuntimeError")
                       /\ UNCHANGED filter_rows
                  ELSE /\ filter_rows' = BuildFilterRows(records, norm.ids)
                       /\ upl_pc' = "zipped"
                       /\ UNCHANGED <<upl_result, txn_parent, txn_filter,
                                      db_parent, db_filter>>
    /\ UNCHANGED <<records, upl_args, main_insert_values, returned>>

\* Step 7: the filter INSERT, skipped when there is no filter row.
UploadFilterInsert ==
    /\ UNCHANGED notUplVars
    /\ upl_pc = "zipped"
    /\ IF filter_rows = <<>>
       THEN /\ upl_pc' = "filtered"
            /\ UNCHANGED <<upl_result, txn_parent, txn_filter, db_parent, db_filter>>
       ELSE \/ /\ txn_filter' = filter_rows
               /\ upl_pc' = "filtered"
               /\ UNCHANGED <<upl_result, txn_parent, db_parent, db_filter>>
            \/ UplRaise("DatabaseError")
    /\ UNCHANGED <<records, upl_args, main_insert_values, returned, inserted_ids,
                   filter_rows>>

\* Step 8: conn.commit(), then the return of inserted_ids.
UploadCommit ==
    /\ UNCHANGED notUplVars
    /\ upl_pc = "filtered"
    /\ \/ /\ db_parent' = TableAfterCommit(db_parent, txn_parent)
          /\ db_filter' = TableAfterCommit(db_filter, txn_filter)
          /\ txn_parent' = <<>>
          /\ txn_filter' = <<>>
          /\ upl_pc' = "done"
          /\ upl_result' = [kind |-> "returned", ids |-> inserted_ids]
       \/ UplRaise("OperationalError")
    /\ UNCHANGED <<records, upl_args, main_insert_values, returned, inserted_ids,
                   filter_rows>>

UplNext ==
    \/ UploadBuild
    \/ UploadConnect
    \/ UploadParentInsert
    \/ UploadNormalize
    \/ UploadFilterInsert
    \/ UploadCommit

----------------------------------------------------------------------------
(* fetch_popular_products: the two provider adapters and the fallback *)

\* A string that is never split is written as one piece.
Word(w) == Str(<<w>>)

\* s[:n]
Take(s, n) == SubSeq(s, 1, Min(n, Len(s)))

\* data.get("popular_products", [])[:top_n] of a provider's answer; a network
\* failure, a non-2xx status or a body that is no JSON raises inside the
\* adapter's try, and the adapter returns [].
Popular(response, top_n) ==
    IF response.kind = "ok" THEN Take(response.items, top_n) ELSE <<>>

\* An item of a payload is a dict unless the provider sent something else;
\* item.get on anything else raises inside the adapter's try.
IsDict(item) == "t" \notin DOMAIN item
AllDicts(items) == \A i \in DOMAIN items : IsDict(items[i])

\* fetch_popular_products_scrapingdog: the records built from the answer.
\* Columns modelled: keyword, position, title, api_source.
fetch_popular_products_scrapingdog(keyword, top_n, response) ==
    LET popular == Popular(response, top_n)
    IN IF ~AllDicts(popular) THEN <<>>
       ELSE
       [i \in 1..Len(popular) |->
          [keyword |-> keyword,
           position |-> Num(i),
           title |-> PyOr(GetDefault(popular[i], "title", Str(<<>>)), Str(<<>>)),
           api_source |-> Word("scrapingdog")]]

\* fetch_popular_products_valueserp: the records built from the answer.
fetch_popular_products_valueserp(keyword, top_n, response) ==
    LET popular == Popular(response, top_n)
    IN IF ~AllDicts(popular) THEN <<>>
       ELSE
       [i \in 1..Len(popular) |->
          [keyword |-> keyword,
           position |-> PyOr(Get(popular[i], "position"), Num(0)),
           title |-> PyOr(GetDefault(popular[i], "title", Str(<<>>)), Str(<<>>)),
           api_source |-> Word("valueserp")]]

\* POPULAR_PRODUCTS_FALLBACK_THRESHOLD's default; the module reads it and
\* never uses it.
FALLBACK_THRESHOLD == 5

\* A mutation of PrimarySufficed: fall back below the threshold of records.
PrimaryAboveThreshold(results) == Len(results) >= FALLBACK_THRESHOLD

\* `if results:` after the ScrapingDog call: any record at all is enough.
PrimarySufficed(results) == results # <<>>

\* fetch_popular_products as a function of what the providers answer.
fetch_popular_products(keyword, top_n, primary, secondary) ==
    LET results == fetch_popular_products_scrapingdog(keyword, top_n, primary)
    IN IF PrimarySufficed(results) THEN results
       ELSE fetch_popular_products_valueserp(keyword, top_n, secondary)

\* The items a payload may hold: with and without a position.
ItemT == [title |-> Str(<<"t">>), position |-> Num(3)]
ItemU == [title |-> Str(<<"u">>)]
NotAnItem == Str(<<"x">>)

\* The items a payload may hold: with a position, without one, and a value
\* that is no dict.
ItemSet == {ItemT, ItemU, NotAnItem}

\* What a provider may answer: a failure of one of three kinds, or a payload.
ResponseSet ==
    [kind : {"network_error", "http_error", "bad_json"}]
        \cup [kind : {"ok"}, items : SeqsUpTo(ItemSet, MaxItems)]

FetchInit ==
    /\ f_keyword \in {Word("k1")}
    /\ f_top_n \in {1, 10}
    /\ f_primary \in ResponseSet
    /\ f_secondary \in ResponseSet
    /\ f_pc = "start"
    /\ f_results = <<>>
    /\ f_calls = <<>>
    /\ f_return = <<>>

\* No fetch in progress.
FetchIdle ==
    /\ f_keyword = Word("k1")
    /\ f_top_n = 10
    /\ f_primary = [kind |-> "network_error"]
    /\ f_secondary = [kind |-> "network_error"]
    /\ f_pc = "idle"
    /\ f_results = <<>>
    /\ f_calls = <<>>
    /\ f_return = <<>>

\* results = fetch_popular_products_scrapingdog(...), then `if results:`.
FetchPrimary ==
    /\ UNCHANGED notFetchVars
    /\ f_pc = "start"
    /\ f_results' = fetch_popular_products_scrapingdog(f_keyword, f_top_n, f_primary)
    /\ f_calls' = Append(f_calls, "scrapingdog")
    /\ f_pc' = IF PrimarySufficed(f_results') THEN "sleep" ELSE "fallback"
    /\ UNCHANGED <<f_keyword, f_top_n, f_primary, f_secondary, f_return>>

\* results = fetch_popular_products_valueserp(...).
FetchSecondary ==
    /\ UNCHANGED notFetchVars
    /\ f_pc = "fallback"
    /\ f_results' = fetch_popular_products_valueserp(f_keyword, f_top_n, f_secondary)
    /\ f_calls' = Append(f_calls, "valueserp")
    /\ f_pc' = "sleep"
    /\ UNCHANGED <<f_keyword, f_top_n, f_primary, f_secondary, f_return>>

\* time.sleep(RATE_LIMIT_DELAY); return results.
FetchSleepReturn ==
    /\ UNCHANGED notFetchVars
    /\ f_pc = "sleep"
    /\ f_calls' = Append(f_calls, "sleep")
    /\ f_return' = f_results
    /\ f_pc' = "done"
    /\ UNCHANGED <<f_keyword, f_top_n, f_primary, f_secondary, f_results>>

FetchNext ==
    \/ FetchPrimary
    \/ FetchSecondary
    \/ FetchSleepReturn

----------------------------------------------------------------------------
(* process_keyword of both scrapers *)

\* What a call gives its caller: a list, or an exception that leaves it.
Gives(recs) == [raised |-> FALSE, recs |-> recs]
Raises == [raised |-> TRUE, recs |-> <<>>]

\* A mutation of PopularCaught: process_keyword has no except clause.
PopularUncaught == Raises

\* popular_products.process_keyword, `except Exception`: log, return [].
PopularCaught == Gives(<<>>)

\* popular_products.process_keyword for one keyword, given what its providers
\* answer; fault stands for any exception raised under its try.
popular_process_keyword(keyword, top_n, outcome) ==
    IF outcome.fault THEN PopularCaught
    ELSE Gives(fetch_popular_products(keyword, top_n, outcome.primary,
                                      outcome.secondary))

\* fetch_aus_results_with_filters: shopping_results, [] on any failure.
\* (The filters string of the answer is not modelled here.)
fetch_aus_results(response) ==
    IF response.kind = "ok" THEN response.items ELSE <<>>

\* shopping_tab.process_keyword, `except Exception`: log, return [].
ShoppingCaught == Gives(<<>>)

\* shopping_tab.process_keyword: one record per item; item.get on an item that
\* is no dict raises, and the except clause returns [] for the whole keyword.
\* Columns modelled: keyword, position, title.
shopping_process_keyword(keyword, outcome) ==
    LET aus_results == fetch_aus_results(outcome.primary)
    IN IF outcome.fault \/ ~AllDicts(aus_results)
       THEN ShoppingCaught
       ELSE Gives([i \in 1..Len(aus_results) |->
                     [keyword |-> keyword,
                      position |-> Get(aus_results[i], "position"),
                      title |-> GetDefault(aus_results[i], "title", Str(<<>>))]])

----------------------------------------------------------------------------
(* scrape_for_keywords and scrape_shopping_tab_for_keywords *)

\* scrape_for_keywords' default top_n.
TopNDefault == 10

Keywords == <<Word("k1"), Word("k2"), Word("k3"), Word("k4"), Word("k5")>>

Failure == [kind |-> "network_error"]
Payload(items) == [kind |-> "ok", items |-> items]

\* What the providers answer for one keyword of a batch: an exception under
\* process_keyword's try; both providers failing; one record from the primary;
\* an empty primary and two records from the secondary; a payload whose item
\* is no dict.
OutcomeSet ==
    {[fault |-> TRUE, primary |-> Failure, secondary |-> Failure],
     [fault |-> FALSE, primary |-> Failure, secondary |-> Failure],
     [fault |-> FALSE, primary |-> Payload(<<ItemT>>), secondary |-> Failure],
     [fault |-> FALSE, primary |-> Payload(<<>>),
      secondary |-> Payload(<<ItemU, ItemT>>)],
     [fault |-> FALSE, primary |-> Payload(<<NotAnItem>>),
      secondary |-> Payload(<<ItemU>>)]}

DispInit ==
    /\ d_scraper \in {"popular", "shopping"}
    /\ \E n \in 0..MaxKeywords :
          /\ d_keywords = SubSeq(Keywords, 1, n)
          /\ d_outcome \in [1..n -> OutcomeSet]
    /\ d_parallel \in BOOLEAN
    /\ PARALLEL_REQUESTS \in 1..MaxWorkers
    /\ d_pc = "start"
    /\ d_i = 1
    /\ d_task = <<>>
    /\ d_future = <<>>
    /\ all_records = <<>>
    /\ d_order = <<>>
    /\ d_return = <<>>

\* No dispatcher running.
DispIdle ==
    /\ d_scraper = "popular"
    /\ d_keywords = <<>>
    /\ d_outcome = <<>>
    /\ d_parallel = FALSE
    /\ PARALLEL_REQUESTS = 1
    /\ d_pc = "idle"
    /\ d_i = 1
    /\ d_task = <<>>
    /\ d_future = <<>>
    /\ all_records = <<>>
    /\ d_order = <<>>
    /\ d_return = <<>>

\* process_keyword of the running dispatcher, for the i-th keyword.
ProcessKeyword(i) ==
    IF d_scraper = "popular"
    THEN popular_process_keyword(d_keywords[i], TopNDefault, d_outcome[i])
    ELSE shopping_process_keyword(d_keywords[i], d_outcome[i])

\* all_records.extend(recs) in the sequential loop.
ExtendSequential(all, recs) == all \o recs

\* A mutation of ExtendParallel: the list is replaced, not extended.
ReplaceParallel(all, recs) == recs

\* A mutation of ExtendParallel: the records are written into the list one
\* place before its end, as a worker writing between another's records would.
InsertParallel(all, recs) ==
    IF all = <<>> THEN recs
    ELSE SubSeq(all, 1, Len(all) - 1) \o recs \o <<all[Len(all)]>>

\* all_records.extend(recs) in the as_completed loop.
ExtendParallel(all, recs) == all \o recs

\* `if parallel and len(keywords) > 1`: the pool branch submits every keyword,
\* the other branch starts the loop.
DispStart ==
    /\ UNCHANGED notDispVars
    /\ d_pc = "start"
    /\ IF d_parallel /\ Len(d_keywords) > 1
       THEN /\ d_pc' = "parallel"
            /\ d_task' = [i \in 1..Len(d_keywords) |-> "pending"]
            /\ d_future' = [i \in 1..Len(d_keywords) |-> Gives(<<>>)]
       ELSE /\ d_pc' = "sequential"
            /\ UNCHANGED <<d_task, d_future>>
    /\ UNCHANGED <<d_scraper, d_keywords, d_parallel, d_outcome,
                   PARALLEL_REQUESTS, d_i, all_records, d_order, d_return>>

\* One pass of `for kw in keywords`: an exception out of process_keyword
\* would leave the dispatcher.
SeqStep ==
    /\ UNCHANGED notDispVars
    /\ d_pc = "sequential"
    /\ d_i <= Len(d_keywords)
    /\ LET res == ProcessKeyword(d_i)
       IN IF res.raised
          THEN /\ d_pc' = "aborted"
               /\ UNCHANGED <<d_i, all_records, d_order>>
          ELSE /\ all_records' = ExtendSequential(all_records, res.recs)
               /\ d_order' = Append(d_order, d_i)
               /\ d_i' = d_i + 1
               /\ UNCHANGED d_pc
    /\ UNCHANGED <<d_scraper, d_keywords, d_parallel, d_outcome,
                   PARALLEL_REQUESTS, d_task, d_future, d_return>>

\* The loop is over: return all_records.
SeqReturn ==
    /\ UNCHANGED notDispVars
    /\ d_pc = "sequential"
    /\ d_i > Len(d_keywords)
    /\ d_return' = all_records
    /\ d_pc' = "done"
    /\ UNCHANGED <<d_scraper, d_keywords, d_parallel, d_outcome,
                   PARALLEL_REQUESTS, d_i, d_task, d_future, all_records, d_order>>

Running == {j \in DOMAIN d_task : d_task[j] = "running"}

\* A free worker of the pool takes the oldest waiting keyword.
WorkerStart(i) ==
    /\ UNCHANGED notDispVars
    /\ d_pc = "parallel"
    /\ d_task[i] = "pending"
    /\ \A j \in 1..(i - 1) : d_task[j] # "pending"
    /\ Cardinality(Running) < PARALLEL_REQUESTS
    /\ d_task' = [d_task EXCEPT ![i] = "running"]
    /\ UNCHANGED <<d_scraper, d_keywords, d_parallel, d_outcome,
                   PARALLEL_REQUESTS, d_pc, d_i, d_future, all_records,
                   d_order, d_return>>

\* The worker's process_keyword ends: its future holds a list or an exception.
WorkerFinish(i) ==
    /\ UNCHANGED notDispVars
    /\ d_pc = "parallel"
    /\ d_task[i] = "running"
    /\ d_task' = [d_task EXCEPT ![i] = "finished"]
    /\ d_future' = [d_future EXCEPT ![i] = ProcessKeyword(i)]
    /\ UNCHANGED <<d_scraper, d_keywords, d_parallel, d_outcome,
                   PARALLEL_REQUESTS, d_pc, d_i, all_records, d_order, d_return>>

\* One pass of `for future in as_completed(...)`: future.result() is merged,
\* or its exception is caught and printed.
Collect(i) ==
    /\ UNCHANGED notDispVars
    /\ d_pc = "parallel"
    /\ d_task[i] = "finished"
    /\ d_task' = [d_task EXCEPT ![i] = "collected"]
    /\ all_records' = IF d_future[i].raised THEN all_records
                      ELSE ExtendParallel(all_records, d_future[i].recs)
    /\ d_order' = Append(d_order, i)
    /\ UNCHANGED <<d_scraper, d_keywords, d_parallel, d_outcome,
                   PARALLEL_REQUESTS, d_pc, d_i, d_future, d_return>>

\* A mutation of PoolDrained: the dispatcher returns after the first future,
\* as with executor.shutdown(wait=False).
FirstCollected == \E i \in DOMAIN d_task : d_task[i] = "collected"

\* The as_completed loop has handed out every future, and the exit of
\* `with ThreadPoolExecutor(...)` has waited for the workers.
PoolDrained == \A i \in DOMAIN d_task : d_task[i] = "collected"

\* Every future was handed out and the pool has shut down: return all_records.
ParReturn ==
    /\ UNCHANGED notDispVars
    /\ d_pc = "parallel"
    /\ PoolDrained
    /\ d_return' = all_records
    /\ d_pc' = "done"
    /\ UNCHANGED <<d_scraper, d_keywords, d_parallel, d_outcome,
                   PARALLEL_REQUESTS, d_i, d_task, d_future, all_records, d_order>>

DispNext ==
    \/ DispStart
    \/ SeqStep
    \/ SeqReturn
    \/ \E i \in DOMAIN d_task : WorkerStart(i)
    \/ \E i \in DOMAIN d_task : WorkerFinish(i)
    \/ \E i \in DOMAIN d_task : Collect(i)
    \/ ParReturn


----------------------------------------------------------------------------
(* main.py: ScrapingSummary and the campaign loop of main() *)

\* An entry of summary.errors: which message, about which campaign (0: none).
Error(kind, campaign_id) == [kind |-> kind, campaign_id |-> campaign_id]

\* ScrapingSummary.add_campaign: the entry appended to campaigns_processed.
NewCampaign(campaign_id, kws) ==
    [campaign_id |-> campaign_id,
     keywords |-> kws,
     keyword_count |-> Len(kws),
     popular_products_found |-> 0,
     shopping_products_found |-> 0,
     keywords_with_no_popular |-> <<>>,
     updated |-> FALSE]

\* A mutation of UpdateFirst: the results are written into every entry.
UpdateEvery(processed, campaign_id, popular, shopping, no_popular) ==
    [i \in DOMAIN processed |->
        [processed[i] EXCEPT !.popular_products_found = popular,
                             !.shopping_products_found = shopping,
                             !.keywords_with_no_popular = no_popular,
                             !.updated = TRUE]]

\* A mutation of UpdateFirst: no entry is found for the campaign_id.
UpdateNone(processed, campaign_id, popular, shopping, no_popular) == processed

\* ScrapingSummary.update_campaign_results: the first entry with the
\* campaign_id is rewritten, the others are left alone.
UpdateFirst(processed, campaign_id, popular, shopping, no_popular) ==
    LET hits == {i \in DOMAIN processed : processed[i].campaign_id = campaign_id}
    IN IF hits = {} THEN processed
       ELSE LET first == CHOOSE i \in hits : \A j \in hits : i <= j
            IN [processed EXCEPT ![first] =
                  [@ EXCEPT !.popular_products_found = popular,
                            !.shopping_products_found = shopping,
                            !.keywords_with_no_popular = no_popular,
                            !.updated = TRUE]]

\* A mutation of WithoutResults: every keyword is listed.
EveryKeyword(kws, recs) == kws

\* [kw for kw in keywords if kw not in keywords_with_results]
WithoutResults(kws, recs) ==
    LET NoRecord(kw) == \A i \in DOMAIN recs : recs[i].keyword # kw
    IN SelectSeq(kws, NoRecord)

\* The rows a committed batch adds to scrape_data, one per record.
RowsOf(campaign_id, scrape_type_id, recs) ==
    [i \in 1..Len(recs) |->
        [campaign_id |-> campaign_id, scrape_type_id |-> scrape_type_id,
         keyword |-> recs[i].keyword]]

\* One record for each of the keywords kws.
OnePerKeyword(kws) == [i \in 1..Len(kws) |-> [keyword |-> kws[i]]]

\* A keyword that has no record in what the scraper returned: its provider
\* had nothing for it, or its fetch failed and process_keyword returned [].
KeywordWithoutRecords(kws, recs) == WithoutResults(kws, recs) # <<>>

\* What a scraper may hand back for the keywords: nothing, records for the
\* first keyword only, or a record for every keyword.
ScrapeResults(kws) ==
    {<<>>, OnePerKeyword(SubSeq(kws, 1, 1)), OnePerKeyword(kws)}

\* A mutation of NextCampaignAfterFailure: a failed campaign ends the loop.
NoCampaignAfterFailure(i) == Len(campaigns) + 1

\* `continue` in the per-campaign except clause: on to the next campaign.
NextCampaignAfterFailure(i) == i + 1

\* A mutation of AfterSendException: the exception leaves main.
SendExceptionEscapes == "escaped"

\* `except Exception` around the send in the finally block: logged, main ends.
AfterSendException == "done"

\* What send_scraping_summary is handed, and how the send went.
Sent(outcome) == [end_time_set |-> end_time, errors |-> errors, outcome |-> outcome]

MainInit ==
    /\ m_pc = "start"
    /\ campaigns = <<>>
    /\ m_idx = 1
    /\ keywords = <<>>
    /\ raw_records = <<>>
    /\ popular_count = 0
    /\ shopping_count = 0
    /\ keywords_with_no_popular = <<>>
    /\ errors = <<>>
    /\ campaigns_processed = <<>>
    /\ total_keywords = 0
    /\ total_popular_products = 0
    /\ total_shopping_products = 0
    /\ end_time = FALSE
    /\ m_sends = <<>>
    /\ m_committed = <<>>
    /\ m_log = <<>>
    /\ m_swallowed = FALSE

\* campaigns = get_active_campaigns(): the query fails, or returns the active
\* campaigns; with none, the early exit records it and finalizes.
GetActiveCampaigns ==
    /\ UNCHANGED <<notMainVars, m_swallowed>>
    /\ m_pc = "start"
    /\ \/ /\ errors' = Append(errors, Error("critical", 0))
          /\ m_log' = Append(m_log, <<"fault_campaigns", 0>>)
          /\ m_pc' = "finally"
          /\ UNCHANGED <<campaigns, end_time>>
       \/ \E n \in 0..MaxCampaigns :
             /\ campaigns' = [i \in 1..n |-> i]
             /\ IF n = 0
                THEN /\ errors' = Append(errors, Error("no_campaigns", 0))
                     /\ end_time' = TRUE
                     /\ m_pc' = "early_send"
                ELSE /\ m_pc' = "campaign"
                     /\ UNCHANGED <<errors, end_time>>
             /\ UNCHANGED m_log
    /\ UNCHANGED <<m_idx, keywords, raw_records, popular_count, shopping_count,
                   keywords_with_no_popular, campaigns_processed, total_keywords,
                   total_popular_products, total_shopping_products, m_sends,
                   m_committed>>

\* send_scraping_summary(...) and `return` on the no-campaign path; the call is
\* inside the outer try, so its exception is recorded as a critical error.
\* Either way the finally block runs next.
NoCampaignsSend ==
    /\ UNCHANGED <<notMainVars, m_swallowed>>
    /\ m_pc = "early_send"
    /\ \E outcome \in {"sent", "not_sent", "raised"} :
          /\ m_sends' = Append(m_sends, Sent(outcome))
          /\ errors' = IF outcome = "raised"
                       THEN Append(errors, Error("critical", 0))
                       ELSE errors
    /\ m_pc' = "finally"
    /\ UNCHANGED <<campaigns, m_idx, keywords, raw_records, popular_count,
                   shopping_count, keywords_with_no_popular, campaigns_processed,
                   total_keywords, total_popular_products,
                   total_shopping_products, end_time, m_committed, m_log>>

\* How many keywords get_keywords_for_campaign may return: none, one, or the
\* most a campaign has.
KeywordCounts == {0, 1, MaxCampaignKeywords}

\* The head of one pass of `for campaign in campaigns`:
\* get_keywords_for_campaign fails, returns nothing, or returns keywords and
\* the campaign is added to the summary.
GetKeywords ==
    /\ UNCHANGED <<notMainVars, m_swallowed>>
    /\ m_pc = "campaign"
    /\ m_idx <= Len(campaigns)
    /\ \/ /\ errors' = Append(errors, Error("campaign_failed", campaigns[m_idx]))
          /\ m_log' = m_log \o <<<<"begin", campaigns[m_idx]>>,
                                 <<"fault_keywords", campaigns[m_idx]>>>>
          /\ m_idx' = NextCampaignAfterFailure(m_idx)
          /\ UNCHANGED <<m_pc, keywords, campaigns_processed, total_keywords,
                         popular_count, shopping_count, keywords_with_no_popular>>
       \/ \E n \in KeywordCounts :
             /\ m_log' = Append(m_log, <<"begin", campaigns[m_idx]>>)
             /\ IF n = 0
                THEN /\ errors' = Append(errors,
                                         Error("no_keywords", campaigns[m_idx]))
                     /\ m_idx' = m_idx + 1
                     /\ UNCHANGED <<m_pc, keywords, campaigns_processed,
                                    total_keywords, popular_count, shopping_count,
                                    keywords_with_no_popular>>
                ELSE /\ keywords' = SubSeq(Keywords, 1, n)
                     /\ campaigns_processed' =
                           Append(campaigns_processed,
                                  NewCampaign(campaigns[m_idx], keywords'))
                     /\ total_keywords' = total_keywords + n
                     /\ popular_count' = 0
                     /\ shopping_count' = 0
                     /\ keywords_with_no_popular' = <<>>
                     /\ m_pc' = "popular"
                     /\ UNCHANGED <<errors, m_idx>>
    /\ UNCHANGED <<campaigns, raw_records, total_popular_products,
                   total_shopping_products, end_time, m_sends, m_committed>>

\* popular_scrape(keywords) and the bookkeeping of its records, or an
\* exception caught by the popular-products except clause.
PopularScrape ==
    /\ UNCHANGED notMainVars
    /\ m_pc = "popular"
    /\ \/ /\ errors' = Append(errors, Error("popular_failed", campaigns[m_idx]))
          /\ m_log' = m_log \o <<<<"popular", campaigns[m_idx]>>,
                                 <<"fault_popular", campaigns[m_idx]>>>>
          /\ keywords_with_no_popular' = keywords
          /\ m_pc' = "shopping"
          /\ UNCHANGED <<raw_records, m_swallowed>>
       \/ \E recs \in ScrapeResults(keywords), failed \in BOOLEAN :
             /\ failed => KeywordWithoutRecords(keywords, recs)
             /\ m_swallowed' = (m_swallowed \/ failed)
             /\ m_log' = Append(m_log, <<"popular", campaigns[m_idx]>>)
             /\ raw_records' = recs
             /\ keywords_with_no_popular' =
                   IF recs = <<>> THEN keywords ELSE WithoutResults(keywords, recs)
             /\ m_pc' = IF recs = <<>> THEN "shopping" ELSE "popular_upload"
             /\ UNCHANGED errors
    /\ UNCHANGED <<campaigns, m_idx, keywords, popular_count, shopping_count,
                   campaigns_processed, total_keywords, total_popular_products,
                   total_shopping_products, end_time, m_sends, m_committed>>

\* upload_scrape_data(..., scrape_type_id=1): it returns one id per record
\* with the batch committed, or raises with nothing committed.
PopularUpload ==
    /\ UNCHANGED <<notMainVars, m_swallowed>>
    /\ m_pc = "popular_upload"
    /\ \/ /\ errors' = Append(errors, Error("popular_failed", campaigns[m_idx]))
          /\ m_log' = Append(m_log, <<"fault_popular", campaigns[m_idx]>>)
          /\ keywords_with_no_popular' = keywords
          /\ UNCHANGED <<popular_count, m_committed>>
       \/ /\ m_committed' = m_committed \o RowsOf(campaigns[m_idx], 1, raw_records)
          /\ popular_count' = Len(raw_records)
          /\ UNCHANGED <<errors, keywords_with_no_popular, m_log>>
    /\ m_pc' = "shopping"
    /\ UNCHANGED <<campaigns, m_idx, keywords, raw_records, shopping_count,
                   campaigns_processed, total_keywords, total_popular_products,
                   total_shopping_products, end_time, m_sends>>

\* scrape_shopping_tab_for_keywords(keywords), or an exception caught by the
\* shopping-tab except clause.
ShoppingScrape ==
    /\ UNCHANGED notMainVars
    /\ m_pc = "shopping"
    /\ \/ /\ errors' = Append(errors, Error("shopping_failed", campaigns[m_idx]))
          /\ m_log' = m_log \o <<<<"shopping", campaigns[m_idx]>>,
                                 <<"fault_shopping", campaigns[m_idx]>>>>
          /\ m_pc' = "update"
          /\ UNCHANGED <<raw_records, m_swallowed>>
       \/ \E recs \in ScrapeResults(keywords), failed \in BOOLEAN :
             /\ failed => KeywordWithoutRecords(keywords, recs)
             /\ m_swallowed' = (m_swallowed \/ failed)
             /\ m_log' = Append(m_log, <<"shopping", campaigns[m_idx]>>)
             /\ raw_records' = recs
             /\ m_pc' = IF recs = <<>> THEN "update" ELSE "shopping_upload"
             /\ UNCHANGED errors
    /\ UNCHANGED <<campaigns, m_idx, keywords, popular_count, shopping_count,
                   keywords_with_no_popular, campaigns_processed, total_keywords,
                   total_popular_products, total_shopping_products, end_time,
                   m_sends, m_committed>>

\* upload_scrape_data(..., scrape_type_id=2).
ShoppingUpload ==
    /\ UNCHANGED <<notMainVars, m_swallowed>>
    /\ m_pc = "shopping_upload"
    /\ \/ /\ errors' = Append(errors, Error("shopping_failed", campaigns[m_idx]))
          /\ m_log' = Append(m_log, <<"fault_shopping", campaigns[m_idx]>>)
          /\ UNCHANGED <<shopping_count, m_committed>>
       \/ /\ m_committed' = m_committed \o RowsOf(campaigns[m_idx], 2, raw_records)
          /\ shopping_count' = Len(raw_records)
          /\ UNCHANGED <<errors, m_log>>
    /\ m_pc' = "update"
    /\ UNCHANGED <<campaigns, m_idx, keywords, raw_records, popular_count,
                   keywords_with_no_popular, campaigns_processed, total_keywords,
                   total_popular_products, total_shopping_products, end_time,
                   m_sends>>

\* summary.update_campaign_results(...), the end of one pass of the loop.
UpdateCampaignResults ==
    /\ UNCHANGED <<notMainVars, m_swallowed>>
    /\ m_pc = "update"
    /\ campaigns_processed' =
          UpdateFirst(campaigns_processed, campaigns[m_idx], popular_count,
                      shopping_count, keywords_with_no_popular)
    /\ total_popular_products' = total_popular_products + popular_count
    /\ total_shopping_products' = total_shopping_products + shopping_count
    /\ m_idx' = m_idx + 1
    /\ m_pc' = "campaign"
    /\ UNCHANGED <<campaigns, keywords, raw_records, popular_count,
                   shopping_count, keywords_with_no_popular, errors,
                   total_keywords, end_time, m_sends, m_committed, m_log>>

\* The loop has run out of campaigns: on to the finally block.
LoopEnd ==
    /\ UNCHANGED <<notMainVars, m_swallowed>>
    /\ m_pc = "campaign"
    /\ m_idx > Len(campaigns)
    /\ m_pc' = "finally"
    /\ UNCHANGED <<campaigns, m_idx, keywords, raw_records, popular_count,
                   shopping_count, keywords_with_no_popular, errors,
                   campaigns_processed, total_keywords, total_popular_products,
                   total_shopping_products, end_time, m_sends, m_committed, m_log>>

\* finally: summary.finalize() sets end_time.
Finalize ==
    /\ UNCHANGED <<notMainVars, m_swallowed>>
    /\ m_pc = "finally"
    /\ end_time' = TRUE
    /\ m_pc' = "send"
    /\ UNCHANGED <<campaigns, m_idx, keywords, raw_records, popular_count,
                   shopping_count, keywords_with_no_popular, errors,
                   campaigns_processed, total_keywords, total_popular_products,
                   total_shopping_products, m_sends, m_committed, m_log>>

\* finally: send_scraping_summary(summary.to_dict()) under its own try.
SendSummary ==
    /\ UNCHANGED <<notMainVars, m_swallowed>>
    /\ m_pc = "send"
    /\ \E outcome \in {"sent", "not_sent", "raised"} :
          /\ m_sends' = Append(m_sends, Sent(outcome))
          /\ m_pc' = IF outcome = "raised" THEN AfterSendException ELSE "done"
    /\ UNCHANGED <<campaigns, m_idx, keywords, raw_records, popular_count,
                   shopping_count, keywords_with_no_popular, errors,
                   campaigns_processed, total_keywords, total_popular_products,
                   total_shopping_products, end_time, m_committed, m_log>>

MainNext ==
    \/ GetActiveCampaigns
    \/ NoCampaignsSend
    \/ GetKeywords
    \/ PopularScrape
    \/ PopularUpload
    \/ ShoppingScrape
    \/ ShoppingUpload
    \/ UpdateCampaignResults
    \/ LoopEnd
    \/ Finalize
    \/ SendSummary

\* main() not running.
MainIdle ==
    /\ m_pc = "idle"
    /\ campaigns = <<>>
    /\ m_idx = 1
    /\ keywords = <<>>
    /\ raw_records = <<>>
    /\ popular_count = 0
    /\ shopping_count = 0
    /\ keywords_with_no_popular = <<>>
    /\ errors = <<>>
    /\ campaigns_processed = <<>>
    /\ total_keywords = 0
    /\ total_popular_products = 0
    /\ total_shopping_products = 0
    /\ end_time = FALSE
    /\ m_sends = <<>>
    /\ m_committed = <<>>
    /\ m_log = <<>>
    /\ m_swallowed = FALSE

----------------------------------------------------------------------------
(* float(), int(), str() and _is_number on the values the providers send *)

\* A float with decimals: m / 10^d, d > 0, m not a multiple of 10.
Dec(m, d) == [t |-> "dec", m |-> m, d |-> d]
Inf == [t |-> "inf"]

DigitChars == {"0", "1", "2", "3", "4", "5", "6", "7", "8", "9"}

DigitVal(c) ==
    CASE c = "0" -> 0 [] c = "1" -> 1 [] c = "2" -> 2 [] c = "3" -> 3
      [] c = "4" -> 4 [] c = "5" -> 5 [] c = "6" -> 6 [] c = "7" -> 7
      [] c = "8" -> 8 [] c = "9" -> 9

DigitChar(n) == CHOOSE c \in DigitChars : DigitVal(c) = n

RECURSIVE ValueOf(_)
\* The number a run of digits spells.
ValueOf(ds) ==
    IF ds = <<>> THEN 0
    ELSE 10 * ValueOf(SubSeq(ds, 1, Len(ds) - 1)) + DigitVal(ds[Len(ds)])

RECURSIVE DigitsOf(_)
\* str(n) of an int n >= 0.
DigitsOf(n) ==
    IF n < 10 THEN <<DigitChar(n)>>
    ELSE DigitsOf(n \div 10) \o <<DigitChar(n % 10)>>

RECURSIVE Pow10(_)
Pow10(d) == IF d = 0 THEN 1 ELSE 10 * Pow10(d - 1)

AllDigits(s) == \A i \in DOMAIN s : s[i] \in DigitChars

\* What float(text) makes of a text: a finite number m / 10^d, an infinity, a
\* NaN, or a ValueError.  Surrounding blanks and one sign are accepted, as are
\* "inf" and "nan"; digits may have one point, and need one digit.  (Texts
\* with an exponent or an underscore are not among the model's inputs.)
ParseFloat(text) ==
    LET t == Strip(text)
        neg == t # <<>> /\ Head(t) = "-"
        u == IF t # <<>> /\ Head(t) \in {"-", "+"} THEN Tail(t) ELSE t
        dot == Find(u, <<".">>)
        whole == IF dot = 0 THEN u ELSE SubSeq(u, 1, dot - 1)
        frac == IF dot = 0 THEN <<>> ELSE SubSeq(u, dot + 1, Len(u))
        sign == IF neg THEN -1 ELSE 1
    IN IF u \in {<<"i", "n", "f">>, <<"i", "n", "f", "i", "n", "i", "t", "y">>}
       THEN [kind |-> "inf"]
       ELSE IF u = <<"n", "a", "n">> THEN [kind |-> "nan"]
       ELSE IF AllDigits(whole) /\ AllDigits(frac) /\ whole \o frac # <<>>
       THEN [kind |-> "finite", m |-> sign * ValueOf(whole \o frac),
             d |-> Len(frac)]
       ELSE [kind |-> "error"]

RECURSIVE Reduced(_, _)
\* m / 10^d with the trailing zeros of the fraction removed.
Reduced(m, d) ==
    IF d > 0 /\ m % 10 = 0 THEN Reduced(m \div 10, d - 1)
    ELSE [m |-> m, d |-> d]

\* The Python float of a parse; a whole number is written Num.
PyFloat(p) ==
    CASE p.kind = "finite" ->
            LET r == Reduced(p.m, p.d)
            IN IF r.d = 0 THEN Num(r.m) ELSE Dec(r.m, r.d)
      [] p.kind = "inf" -> Inf
      [] p.kind = "nan" -> NaN

\* float(val): the value, or "raised" for a TypeError or ValueError.
ToFloat(val) ==
    CASE val.t \in {"num", "dec", "nan", "inf"} -> [raised |-> FALSE, val |-> val]
      [] val.t = "bool" -> [raised |-> FALSE, val |-> Num(IF val.b THEN 1 ELSE 0)]
      [] val.t = "str" ->
            LET p == ParseFloat(val.s)
            IN IF p.kind = "error" THEN [raised |-> TRUE, val |-> None]
               ELSE [raised |-> FALSE, val |-> PyFloat(p)]
      [] OTHER -> [raised |-> TRUE, val |-> None]

\* _is_number(val): whether float(val) succeeds.
is_number(val) == ~ToFloat(val).raised

\* int(val) of a value that passed _is_number: a text must be all digits
\* (with blanks and a sign), so int("4.5") raises ValueError, and int() of an
\* infinity or a NaN raises too.
ToInt(val) ==
    CASE val.t = "num" -> [raised |-> FALSE, val |-> val]
      [] val.t = "bool" -> [raised |-> FALSE, val |-> Num(IF val.b THEN 1 ELSE 0)]
      [] val.t = "dec" ->
            [raised |-> FALSE,
             val |-> Num(IF val.m >= 0 THEN val.m \div Pow10(val.d)
                         ELSE -((-val.m) \div Pow10(val.d)))]
      [] val.t = "str" ->
            LET p == ParseFloat(val.s)
            IN IF p.kind = "finite" /\ p.d = 0 /\ Find(val.s, <<".">>) = 0
               THEN [raised |-> FALSE, val |-> Num(p.m)]
               ELSE [raised |-> TRUE, val |-> None]
      [] OTHER -> [raised |-> TRUE, val |-> None]

\* The digits of a number as str() and an f-string write them: an int as its
\* digits, a float with its point ("5.0", "2.5").
IntText(n) == IF n < 0 THEN <<"-">> \o DigitsOf(-n) ELSE DigitsOf(n)

RECURSIVE Padded(_, _)
Padded(ds, d) == IF Len(ds) >= d THEN ds ELSE Padded(<<"0">> \o ds, d)

FloatText(val) ==
    CASE val.t = "num" -> IntText(val.n) \o <<".", "0">>
      [] val.t = "dec" ->
            LET a == IF val.m < 0 THEN -val.m ELSE val.m
                frac == Padded(DigitsOf(a % Pow10(val.d)), val.d)
            IN (IF val.m < 0 THEN <<"-">> ELSE <<>>)
                   \o DigitsOf(a \div Pow10(val.d)) \o <<".">> \o frac
      [] val.t = "inf" -> <<"i", "n", "f">>
      [] val.t = "nan" -> <<"n", "a", "n">>

\* str(val) of a value a JSON payload can hold.
PyStr(val) ==
    CASE val.t = "str" -> val
      [] val.t = "num" -> Str(IntText(val.n))
      [] val.t = "dec" -> Str(FloatText(val))
      [] val.t = "bool" -> Str(IF val.b THEN <<"T", "r", "u", "e">>
                               ELSE <<"F", "a", "l", "s", "e">>)
      [] val.t = "none" -> Str(<<"N", "o", "n", "e">>)

----------------------------------------------------------------------------
(* The adapters' helpers: reviews, prices, product ids and links *)

Returns(val) == [raised |-> FALSE, val |-> val]
RaisesError == [raised |-> TRUE, val |-> None]

\* int(num * scale) for the float a text parsed to; int() of an infinity
\* raises OverflowError, which `except ValueError` does not catch, and int()
\* of a NaN raises ValueError, which it does.
ScaledInt(p, scale) ==
    CASE p.kind = "error" -> Returns(Num(0))
      [] p.kind = "nan" -> Returns(Num(0))
      [] p.kind = "inf" -> RaisesError
      [] p.kind = "finite" ->
            LET a == IF p.m < 0 THEN -p.m ELSE p.m
                q == (a * scale) \div Pow10(p.d)
            IN Returns(Num(IF p.m < 0 THEN -q ELSE q))

RECURSIVE Without(_, _)
\* s.replace(c, '') for a character c.
Without(s, c) ==
    IF s = <<>> THEN <<>>
    ELSE IF Head(s) = c THEN Without(Tail(s), c)
    ELSE <<Head(s)>> \o Without(Tail(s), c)

\* parse_reviews_count: the int a reviews text stands for, or the exception
\* that leaves the function.
parse_reviews_count(reviews_str) ==
    IF ~Truthy(reviews_str) \/ reviews_str.t # "str" THEN Returns(Num(0))
    ELSE LET s == Without(Without(Strip(reviews_str.s), "("), ")")
             last == IF s = <<>> THEN "" ELSE s[Len(s)]
             front == SubSeq(s, 1, Len(s) - 1)
         IN IF last \in {"K", "k"} THEN ScaledInt(ParseFloat(front), 1000)
            ELSE IF last \in {"M", "m"}
                 THEN ScaledInt(ParseFloat(front), 1000000)
            ELSE ScaledInt(ParseFloat(s), 1)

RECURSIVE DigitRun(_, _)
\* The index of the last digit of the run of digits that starts at i, i - 1
\* when s[i] is no digit.
DigitRun(s, i) ==
    IF i <= Len(s) /\ s[i] \in DigitChars THEN DigitRun(s, i + 1) ELSE i - 1

\* \d+(?:\.\d+)? matched at i: the index where the match ends, 0 for none.
NumberAt(s, i) ==
    LET j == DigitRun(s, i)
    IN IF j < i THEN 0
       ELSE IF j + 2 <= Len(s) /\ s[j + 1] = "." /\ s[j + 2] \in DigitChars
            THEN DigitRun(s, j + 2)
            ELSE j

RECURSIVE SkipBlanks(_, _)
SkipBlanks(s, i) ==
    IF i <= Len(s) /\ s[i] = " " THEN SkipBlanks(s, i + 1) ELSE i

\* Where the number of `Current price:\s*\$?(number)` starts when the label
\* is at i, 0 when the pattern does not match there.  The label is one piece.
CurrentPriceAt(s, i) ==
    IF s[i] # "Current price:" THEN 0
    ELSE LET j == SkipBlanks(s, i + 1)
             k == IF j <= Len(s) /\ s[j] = "$" THEN j + 1 ELSE j
         IN IF NumberAt(s, k) # 0 THEN k ELSE 0

\* Where the number of `\$(number)` starts when the dollar sign is at i.
DollarAt(s, i) ==
    IF s[i] = "$" /\ NumberAt(s, i + 1) # 0 THEN i + 1 ELSE 0

\* The price of the leftmost match of a pattern, None when nothing matches.
FirstPrice(s, At(_, _)) ==
    LET hits == {i \in DOMAIN s : At(s, i) # 0}
    IN IF hits = {} THEN None
       ELSE LET i == CHOOSE h \in hits : \A g \in hits : h <= g
                k == At(s, i)
            IN ToFloat(Str(SubSeq(s, k, NumberAt(s, k)))).val

\* parse_price_from_extensions: <<price, price_raw>>.
parse_price_from_extensions(extensions_str) ==
    IF ~Truthy(extensions_str) \/ extensions_str.t # "str"
    THEN <<None, Str(<<>>)>>
    ELSE LET s == extensions_str.s
             labelled == FirstPrice(s, CurrentPriceAt)
             dollar == FirstPrice(s, DollarAt)
         IN IF labelled # None
            THEN <<labelled, Str(<<"$">> \o FloatText(labelled))>>
            ELSE IF dollar # None
            THEN <<dollar, Str(<<"$">> \o FloatText(dollar))>>
            ELSE <<None, extensions_str>>

RECURSIVE RStrip(_, _)
\* s.rstrip(c)
RStrip(s, c) ==
    IF s # <<>> /\ s[Len(s)] = c THEN RStrip(SubSeq(s, 1, Len(s) - 1), c)
    ELSE s

\* extract_product_id_from_link: the digits after /shopping/product/ (one
\* piece of the text), else a last path segment of digits, else None;
\* re.search on a link that is no text raises TypeError.
extract_product_id_from_link(link) ==
    IF ~Truthy(link) THEN Returns(None)
    ELSE IF link.t # "str" THEN RaisesError
    ELSE LET s == link.s
             hits == {i \in DOMAIN s :
                        s[i] = "/shopping/product/" /\ DigitRun(s, i + 1) > i}
             parts == Split(RStrip(s, "/"), <<"/">>)
             last == parts[Len(parts)]
         IN IF hits # {}
            THEN LET i == CHOOSE h \in hits : \A g \in hits : h <= g
                 IN Returns(Str(SubSeq(s, i + 1, DigitRun(s, i + 1))))
            ELSE IF last # <<>> /\ AllDigits(last) THEN Returns(Str(last))
            ELSE Returns(None)

\* construct_shopping_link
construct_shopping_link(product_id) ==
    IF ~Truthy(product_id) THEN Str(<<>>)
    ELSE Str(<<"https://www.google.com.au", "/shopping/product/">>
                 \o product_id.s)

----------------------------------------------------------------------------
(* The records the adapters build, all columns *)

Empty == Str(<<>>)

\* `float(x) if x is not None and _is_number(x) else None`
FloatOrNone(x) == IF x # None /\ is_number(x) THEN ToFloat(x).val ELSE None

\* The keys of a popular-products record, in the order the dict is built.
PopularKeys ==
    <<"scrape_date", "keyword", "position", "product_id", "title", "link",
      "rating", "reviews", "price", "price_raw", "merchant", "is_carousel",
      "carousel_position", "has_product_page", "filters_raw", "api_source">>

\* The keys of a shopping-tab record, in the order the dict is built.
ShoppingKeys ==
    <<"scrape_date", "keyword", "position", "product_id", "title", "link",
      "rating", "reviews", "price", "price_raw", "merchant", "filters_raw",
      "is_carousel", "carousel_position", "has_product_page">>

\* One pass of the loop of fetch_popular_products_scrapingdog: the record of
\* the i-th item, or the exception its construction raises.
scrapingdog_record(item, i, keyword, scrape_date) ==
    IF ~IsDict(item) THEN RaisesError
    ELSE
    LET product_id == IF Truthy(Get(item, "product_id"))
                      THEN PyStr(Get(item, "product_id")) ELSE Empty
        link == IF Truthy(product_id) THEN construct_shopping_link(product_id)
                ELSE Empty
        reviews_count == parse_reviews_count(GetDefault(item, "reviews", Empty))
        numeric == Truthy(Get(item, "price")) /\ is_number(Get(item, "price"))
        price_val == ToFloat(Get(item, "price")).val
        parsed == parse_price_from_extensions(GetDefault(item, "extensions", Empty))
    IN IF reviews_count.raised THEN RaisesError
       ELSE Returns(
        [scrape_date |-> scrape_date,
         keyword |-> keyword,
         position |-> Num(i),
         product_id |-> product_id,
         title |-> PyOr(GetDefault(item, "title", Empty), Empty),
         link |-> link,
         rating |-> None,
         reviews |-> reviews_count.val,
         price |-> IF numeric THEN price_val ELSE parsed[1],
         price_raw |-> IF numeric THEN Str(<<"$">> \o FloatText(price_val))
                       ELSE parsed[2],
         merchant |-> PyOr(GetDefault(item, "seller", Empty), Empty),
         is_carousel |-> Bool(FALSE),
         carousel_position |-> None,
         has_product_page |-> Bool(Truthy(link)),
         filters_raw |-> Empty,
         api_source |-> Word("scrapingdog")])

\* One pass of the loop of fetch_popular_products_valueserp.
valueserp_record(item, keyword, scrape_date) ==
    IF ~IsDict(item) THEN RaisesError
    ELSE
    LET link == PyOr(Get(item, "link"),
                  PyOr(Get(item, "product_link"),
                    PyOr(Get(item, "url"),
                      PyOr(Get(item, "shopping_link"), Empty))))
        extracted == extract_product_id_from_link(link)
        pid0 == PyOr(extracted.val, Empty)
        pid == IF ~Truthy(pid0) /\ Truthy(Get(item, "id"))
               THEN PyStr(Get(item, "id")) ELSE pid0
        rat == FloatOrNone(Get(item, "rating"))
        counted == Get(item, "reviews") # None /\ is_number(Get(item, "reviews"))
        rev == ToInt(ToFloat(Get(item, "reviews")).val)
        price == Get(item, "price")
        regular == Get(item, "regular_price")
        val == Get(regular, "value")
        priced == IsDict(regular) /\ val # None /\ is_number(val)
    IN IF extracted.raised \/ (counted /\ rev.raised) THEN RaisesError
       ELSE Returns(
        [scrape_date |-> scrape_date,
         keyword |-> keyword,
         position |-> PyOr(Get(item, "position"), Num(0)),
         product_id |-> pid,
         title |-> PyOr(GetDefault(item, "title", Empty), Empty),
         link |-> link,
         rating |-> rat,
         reviews |-> IF counted THEN rev.val ELSE Num(0),
         price |-> IF price # None THEN FloatOrNone(price)
                   ELSE IF priced THEN ToFloat(val).val ELSE None,
         price_raw |-> IF price # None THEN PyStr(price)
                       ELSE IF priced
                       THEN Str(PyStr(GetDefault(regular, "symbol", Empty)).s
                                    \o PyStr(val).s)
                       ELSE Empty,
         merchant |-> PyOr(GetDefault(item, "merchant", Empty), Empty),
         is_carousel |-> Bool(FALSE),
         carousel_position |-> None,
         has_product_page |-> Bool(Truthy(link)),
         filters_raw |-> Empty,
         api_source |-> Word("valueserp")])

\* One pass of the loop of shopping_tab.process_keyword.
shopping_record(item, keyword, timestamp, filters_str) ==
    IF ~IsDict(item) THEN RaisesError
    ELSE
    LET link == GetDefault(item, "link", Empty)
        id == Get(item, "id")
        extracted == IF ~Truthy(id) /\ Truthy(link)
                     THEN extract_product_id_from_link(link) ELSE Returns(id)
        counted == Get(item, "reviews") # None /\ is_number(Get(item, "reviews"))
        rev == ToInt(Get(item, "reviews"))
        price == Get(item, "price")
    IN IF extracted.raised \/ (counted /\ rev.raised) THEN RaisesError
       ELSE Returns(
        [scrape_date |-> timestamp,
         keyword |-> keyword,
         position |-> Get(item, "position"),
         product_id |-> PyOr(extracted.val, Empty),
         title |-> GetDefault(item, "title", Empty),
         link |-> link,
         rating |-> FloatOrNone(Get(item, "rating")),
         reviews |-> IF counted THEN rev.val ELSE None,
         price |-> FloatOrNone(price),
         price_raw |-> IF price # None THEN PyStr(price) ELSE Empty,
         merchant |-> GetDefault(item, "merchant", Empty),
         filters_raw |-> filters_str,
         is_carousel |-> Bool(FALSE),
         carousel_position |-> None,
         has_product_page |-> Bool(Truthy(link))])

----------------------------------------------------------------------------
(* pandas: DataFrame(records), to_datetime, to_numeric, astype(bool) *)

NaT == [t |-> "nat"]
Timestamp(text) == [t |-> "ts", at |-> text]

\* The date texts of the model: datetime.utcnow().isoformat() of two instants.
DateTexts == {"2025-01-02T03:04:05.000006", "2025-01-02T03:04:07.000008"}

IsNull(v) == v.t \in {"none", "nan", "nat"}

\* pd.to_datetime(value, errors='coerce'): a date text becomes the Timestamp
\* of its instant; a null or any other text becomes NaT.
to_datetime(v) ==
    CASE v.t = "str" -> IF Len(v.s) = 1 /\ v.s[1] \in DateTexts
                        THEN Timestamp(v.s[1]) ELSE NaT
      [] v.t = "ts" -> v
      [] v.t \in {"none", "nan", "nat"} -> NaT

\* pd.to_numeric(value, errors='coerce'): a number stays, a numeric text is
\* parsed, a boolean counts as 0 or 1, and everything else becomes NaN.
to_numeric(v) ==
    CASE v.t \in {"num", "dec", "inf"} -> v
      [] v.t = "bool" -> Num(IF v.b THEN 1 ELSE 0)
      [] v.t = "str" -> LET p == ParseFloat(v.s)
                        IN IF p.kind = "error" THEN NaN ELSE PyFloat(p)
      [] OTHER -> NaN

\* Series.astype(bool) of an object column: Python's truth of each cell.
astype_bool(v) == Bool(Truthy(v))

\* A DataFrame: its column names in order, and its rows as dicts on them.
Frame(cols, rows) == [cols |-> cols, rows |-> rows]

HasCol(df, c) == c \in Range(df.cols)

\* pd.DataFrame(records): the columns are the keys of the records (order
\* gives the order in which the dicts hold them); a key a record lacks is NaN
\* in its row, and a None in a column whose other values are all numbers
\* becomes NaN as the column is stored as floats.
DataFrame(recs, order) ==
    LET keys == UNION {DOMAIN recs[i] : i \in DOMAIN recs}
        Present(c) == c \in keys
        cols == SelectSeq(order, Present)
        Vals(c) == {recs[i][c] : i \in {j \in DOMAIN recs : c \in DOMAIN recs[j]}}
        Numeric(c) ==
            /\ \E v \in Vals(c) : v.t \in {"num", "dec"}
            /\ \A v \in Vals(c) : v.t \in {"num", "dec", "none", "nan"}
        Cell(i, c) ==
            IF c \notin DOMAIN recs[i] THEN NaN
            ELSE IF recs[i][c] = None /\ Numeric(c) THEN NaN
            ELSE recs[i][c]
    IN Frame(cols, [i \in DOMAIN recs |-> [c \in keys |-> Cell(i, c)]])

\* df.empty
IsEmptyFrame(df) == df.rows = <<>> \/ df.cols = <<>>

\* df[col] = f(df[col]) for a column the frame has.
MapCol(df, c, F(_)) ==
    Frame(df.cols,
          [i \in DOMAIN df.rows |-> [df.rows[i] EXCEPT ![c] = F(@)]])

\* df[col] = value: an existing column is overwritten in place, a new one is
\* appended as the last column.
SetCol(df, c, Value(_)) ==
    Frame(IF HasCol(df, c) THEN df.cols ELSE Append(df.cols, c),
          [i \in DOMAIN df.rows |->
              [k \in DOMAIN df.rows[i] \cup {c} |->
                  IF k = c THEN Value(df.rows[i]) ELSE df.rows[i][k]]])

\* df[[...]]: the named columns, in the order named.
SelectCols(df, cols) ==
    Frame(cols,
          [i \in DOMAIN df.rows |-> [c \in Range(cols) |-> df.rows[i][c]]])

\* df.drop(columns=[c])
DropCol(df, c) ==
    LET Kept(k) == k # c
    IN SelectCols(df, SelectSeq(df.cols, Kept))

\* df.rename(columns={old: new})
RenameCol(df, old, new) ==
    LET Renamed(k) == IF k = old THEN new ELSE k
    IN Frame([j \in DOMAIN df.cols |-> Renamed(df.cols[j])],
             [i \in DOMAIN df.rows |->
                 [k \in {Renamed(c) : c \in Range(df.cols)} |->
                     IF k = new THEN df.rows[i][old] ELSE df.rows[i][k]]])

\* df.to_dict(orient='records')
to_dict(df) == df.rows

----------------------------------------------------------------------------
(* cleaner/clean_data.py *)

expected_cols ==
    <<"scrape_date", "keyword", "position", "product_id", "title", "link",
      "rating", "reviews", "price", "price_raw", "merchant", "is_carousel",
      "carousel_position", "has_product_page">>

RECURSIVE AddMissing(_, _)
\* for col in expected_cols: if col not in df.columns: df[col] = None
AddMissing(df, cols) ==
    IF cols = <<>> THEN df
    ELSE LET NoValue(row) == None
         IN AddMissing(IF HasCol(df, Head(cols)) THEN df
                       ELSE SetCol(df, Head(cols), NoValue),
                       Tail(cols))

\* A mutation of CoerceNumber: a text that is no number is left as it is.
KeepUnparsed(v) == IF v.t = "str" /\ ~is_number(v) THEN v ELSE to_numeric(v)

\* pd.to_numeric(column, errors='coerce'), cell by cell.
CoerceNumber(v) == to_numeric(v)

\* if 'date' in df.columns and 'scrape_date' not in df.columns: rename it.
RenameLegacyDate(df) ==
    LET DateOf(row) == row["date"]
    IN IF HasCol(df, "date") /\ ~HasCol(df, "scrape_date")
       THEN DropCol(SetCol(df, "scrape_date", DateOf), "date")
       ELSE df

\* The four numeric conversions.
CoerceNumbers(df) ==
    MapCol(MapCol(MapCol(MapCol(df, "position", CoerceNumber),
                         "reviews", CoerceNumber),
                  "rating", CoerceNumber),
           "price", CoerceNumber)

\* The two boolean conversions.
CoerceBooleans(df) ==
    MapCol(MapCol(df, "is_carousel", astype_bool), "has_product_page", astype_bool)

\* clean_popular_products
clean_popular_products(df) ==
    SelectCols(
        CoerceBooleans(
            CoerceNumbers(
                MapCol(AddMissing(RenameLegacyDate(df), expected_cols),
                       "scrape_date", to_datetime))),
        expected_cols)

\* c.strip().lower().replace(' ', '_') on the column names of the model.
NormalName(c) ==
    CASE c = "Query" -> "query"
      [] c = "Filters" -> "filters"
      [] c = "Image" -> "image"
      [] OTHER -> c

shopping_cols ==
    <<"date", "keyword", "position", "product_id", "title", "link", "price",
      "merchant", "filters_raw">>

RECURSIVE NormalizeNames(_, _)
NormalizeNames(df, cols) ==
    IF cols = <<>> THEN df
    ELSE NormalizeNames(IF NormalName(Head(cols)) = Head(cols) THEN df
                        ELSE RenameCol(df, Head(cols), NormalName(Head(cols))),
                        Tail(cols))

\* if 'Date' in df.columns: parse it into 'date' and drop it.
ParseDateColumn(df) ==
    LET DateOf(row) == to_datetime(row["Date"])
    IN IF HasCol(df, "Date") THEN DropCol(SetCol(df, "date", DateOf), "Date")
       ELSE df

\* The column names normalized, and 'query' renamed to 'keyword'.
NormalizeColumns(df) ==
    LET named == NormalizeNames(df, df.cols)
    IN IF HasCol(named, "query") /\ ~HasCol(named, "keyword")
       THEN RenameCol(named, "query", "keyword") ELSE named

\* if col in df.columns: df[col] = pd.to_numeric(df[col], errors='coerce')
CoerceIfPresent(df, c) == IF HasCol(df, c) THEN MapCol(df, c, CoerceNumber) ELSE df

RenameFilters(df) ==
    IF HasCol(df, "filters") THEN RenameCol(df, "filters", "filters_raw") ELSE df

DropImage(df) == IF HasCol(df, "image") THEN DropCol(df, "image") ELSE df

\* df[[c for c in cols if c in df.columns]]
KeepShoppingCols(df) ==
    LET Has(c) == HasCol(df, c)
    IN SelectCols(df, SelectSeq(shopping_cols, Has))

\* clean_shopping_tab
clean_shopping_tab(df) ==
    KeepShoppingCols(
        DropImage(
            RenameFilters(
                CoerceIfPresent(
                    CoerceIfPresent(NormalizeColumns(ParseDateColumn(df)), "price"),
                    "position"))))

----------------------------------------------------------------------------
(* One batch through the pipeline: adapter, DataFrame, cleaner, loader *)

RECURSIVE Join(_, _)
\* sep.join(parts)
Join(parts, sep) ==
    IF parts = <<>> THEN <<>>
    ELSE IF Len(parts) = 1 THEN parts[1]
    ELSE parts[1] \o sep \o Join(Tail(parts), sep)

RECURSIVE Flatten(_)
Flatten(lists) ==
    IF lists = <<>> THEN <<>> ELSE Head(lists) \o Flatten(Tail(lists))

\* The entries one filter group adds to filter_entries: "name - value" for
\* every value, a dict with a name or a text, when both texts are non-empty.
GroupEntries(filter_group) ==
    LET filter_name == GetDefault(filter_group, "name", Empty)
        filter_values == GetDefault(filter_group, "values", PyList(<<>>)).v
        NameOf(value_item) ==
            IF IsDict(value_item) THEN GetDefault(value_item, "name", Empty)
            ELSE IF value_item.t = "str" THEN value_item
            ELSE Empty
        Named(value_item) == Truthy(filter_name) /\ Truthy(NameOf(value_item))
        named == SelectSeq(filter_values, Named)
    IN [j \in DOMAIN named |->
           filter_name.s \o <<" ", "-", " ">> \o NameOf(named[j]).s]

\* filters_str of fetch_aus_results_with_filters: the entries of all the
\* groups of the answer, joined with ", ".
filters_str_of(filters) ==
    Str(Join(Flatten([g \in DOMAIN filters |-> GroupEntries(filters[g])]),
             <<",", " ">>))

\* datetime.datetime.utcnow().isoformat() at the time of the fetch.
UtcNow == Word("2025-01-02T03:04:05.000006")

\* The records an adapter returns for the items of an answer: the record of
\* every item, or [] when the construction of one of them raises.
Collected(built) ==
    IF \E i \in DOMAIN built : built[i].raised THEN <<>>
    ELSE [i \in DOMAIN built |-> built[i].val]

IsPopularPath(path) == path \in {"scrapingdog", "valueserp"}

\* str.upper() of the provider tags.
Upper(tag) ==
    CASE tag = "scrapingdog" -> "SCRAPINGDOG"
      [] tag = "valueserp" -> "VALUESERP"
      [] OTHER -> tag

\* df_popular_clean['api_source'].value_counts().to_dict() when the cleaned
\* frame has the column, {} when it has not.
ApiUsage(df_clean) ==
    IF ~HasCol(df_clean, "api_source") THEN <<>>
    ELSE LET tags == {df_clean.rows[i]["api_source"] : i \in DOMAIN df_clean.rows}
         IN [tag \in tags |->
                Cardinality({i \in DOMAIN df_clean.rows :
                                df_clean.rows[i]["api_source"] = tag})]

\* api_usage_str: "TAG: count" for every tag, most frequent first, or
\* "Unknown" when api_usage is empty.
ApiUsageStr(df_clean) ==
    LET api_usage == ApiUsage(df_clean)
        tags == DOMAIN api_usage
        First(tag) == CHOOSE i \in DOMAIN df_clean.rows :
                        /\ df_clean.rows[i]["api_source"] = tag
                        /\ \A j \in 1..(i - 1) : df_clean.rows[j]["api_source"] # tag
        Before(a, b) == \/ api_usage[a] > api_usage[b]
                        \/ api_usage[a] = api_usage[b] /\ First(a) < First(b)
        order == CHOOSE s \in [1..Cardinality(tags) -> tags] :
                    \A i, j \in DOMAIN s : i < j => Before(s[i], s[j])
    IN IF tags = {} THEN Word("Unknown")
       ELSE Str(Join([i \in DOMAIN order |->
                        <<Upper(order[i].s[1]), ":", " ">>
                            \o IntText(api_usage[order[i]])],
                     <<",", " ">>))

\* An item of a provider's answer: a title, and any of a position, a link, a
\* price (a numeric text, a text that is no number, a number), a product id
\* and a reviews count written with a point.
OptionalField(key, values) == {<<>>} \cup {[k \in {key} |-> v] : v \in values}

Merged(f, g) ==
    [k \in DOMAIN f \cup DOMAIN g |-> IF k \in DOMAIN f THEN f[k] ELSE g[k]]

PipeItemSet ==
    {Merged([title |-> Word("t")],
            Merged(a, Merged(b, Merged(c, Merged(d, e))))) :
        a \in OptionalField("position", {Num(3)}),
        b \in OptionalField("link", {Str(<<"h", "/", "4", "2">>)}),
        c \in OptionalField("price", {Str(<<"7">>), Str(<<"$", "7">>), Num(7)}),
        d \in OptionalField("product_id", {Str(<<"5", "5">>)}),
        e \in OptionalField("reviews", {Str(<<"4", ".", "5">>)})}

\* The filters of a shopping answer: none, or one group of two values.
PipeFilterSet ==
    {<<>>,
     <<[name |-> Str(<<"a">>),
        values |-> PyList(<<[name |-> Str(<<"x">>)], Str(<<"y">>)>>)]>>}

PipeInit ==
    /\ p_path \in {"scrapingdog", "valueserp", "shopping"}
    /\ p_items \in SeqsUpTo(PipeItemSet, MaxItems)
    /\ p_filters \in IF p_path = "shopping" THEN PipeFilterSet ELSE {<<>>}
    /\ p_pc = "start"
    /\ p_records = <<>>
    /\ p_frame = Frame(<<>>, <<>>)
    /\ p_clean = Frame(<<>>, <<>>)
    /\ p_usage = [api_usage |-> <<>>, api_usage_str |-> Empty]
    /\ p_rows = <<>>

PipeIdle ==
    /\ p_path = "idle"
    /\ p_items = <<>>
    /\ p_filters = <<>>
    /\ p_pc = "idle"
    /\ p_records = <<>>
    /\ p_frame = Frame(<<>>, <<>>)
    /\ p_clean = Frame(<<>>, <<>>)
    /\ p_usage = [api_usage |-> <<>>, api_usage_str |-> Empty]
    /\ p_rows = <<>>

\* raw = popular_scrape(keywords) for one keyword that ScrapingDog answers:
\* the records of the first top_n items.
PipeFetchScrapingdog ==
    /\ UNCHANGED notPipeVars
    /\ p_pc = "start"
    /\ p_path = "scrapingdog"
    /\ p_records' = Collected([i \in 1..Min(Len(p_items), TopNDefault) |->
                        scrapingdog_record(p_items[i], i, Word("k1"), UtcNow)])
    /\ p_pc' = "fetched"
    /\ UNCHANGED <<p_path, p_items, p_filters, p_frame, p_clean, p_usage, p_rows>>

\* raw = popular_scrape(keywords) for one keyword that ValueSERP answers.
PipeFetchValueserp ==
    /\ UNCHANGED notPipeVars
    /\ p_pc = "start"
    /\ p_path = "valueserp"
    /\ p_records' = Collected([i \in 1..Min(Len(p_items), TopNDefault) |->
                        valueserp_record(p_items[i], Word("k1"), UtcNow)])
    /\ p_pc' = "fetched"
    /\ UNCHANGED <<p_path, p_items, p_filters, p_frame, p_clean, p_usage, p_rows>>

\* raw = scrape_shopping_tab_for_keywords(keywords) for one keyword: the
\* records of every item of the answer, with the answer's filters.
PipeFetchShopping ==
    /\ UNCHANGED notPipeVars
    /\ p_pc = "start"
    /\ p_path = "shopping"
    /\ p_records' = Collected([i \in DOMAIN p_items |->
                        shopping_record(p_items[i], Word("k1"), UtcNow,
                                        filters_str_of(p_filters))])
    /\ p_pc' = "fetched"
    /\ UNCHANGED <<p_path, p_items, p_filters, p_frame, p_clean, p_usage, p_rows>>

\* df = pd.DataFrame(raw); if not df.empty: the cleaner, and on the popular
\* path the API usage of the cleaned frame.
PipeClean ==
    /\ UNCHANGED notPipeVars
    /\ p_pc = "fetched"
    /\ p_frame' = DataFrame(p_records,
                            IF IsPopularPath(p_path) THEN PopularKeys
                            ELSE ShoppingKeys)
    /\ IF IsEmptyFrame(p_frame')
       THEN /\ p_pc' = "done"
            /\ UNCHANGED <<p_clean, p_usage>>
       ELSE /\ p_clean' = IF IsPopularPath(p_path)
                          THEN clean_popular_products(p_frame')
                          ELSE clean_shopping_tab(p_frame')
            /\ p_usage' = IF IsPopularPath(p_path)
                          THEN [api_usage |-> ApiUsage(p_clean'),
                                api_usage_str |-> ApiUsageStr(p_clean')]
                          ELSE p_usage
            /\ p_pc' = "cleaned"
    /\ UNCHANGED <<p_path, p_items, p_filters, p_records, p_rows>>

\* upload_scrape_data(df_clean.to_dict(orient='records'), campaign_id,
\* scrape_type_id): the tuples of the parent INSERT.
PipeUpload ==
    /\ UNCHANGED notPipeVars
    /\ p_pc = "cleaned"
    /\ p_rows' = BuildTuples(to_dict(p_clean), 1,
                             IF IsPopularPath(p_path) THEN 1 ELSE 2)
    /\ p_pc' = "done"
    /\ UNCHANGED <<p_path, p_items, p_filters, p_records, p_frame, p_clean,
                   p_usage>>

PipeNext ==
    \/ PipeFetchScrapingdog
    \/ PipeFetchValueserp
    \/ PipeFetchShopping
    \/ PipeClean
    \/ PipeUpload

----------------------------------------------------------------------------
(* One call of a cleaner, of parse_reviews_count, or of the filter encoding *)

CallIdle ==
    /\ c_fn = "idle"
    /\ c_arg = <<>>
    /\ c_pc = "idle"
    /\ c_out = <<>>

\* The non-empty sequences over a set, up to a length.
TextsUpTo(set, n) == SeqsUpTo(set, n) \ {<<>>}

\* The rows of the frames handed to the cleaners, on all the columns of the
\* model: a timestamp under the legacy and under the current name, a position
\* (a number, a text that is no number, None), a price (a numeric text,
\* None), a flag and a column neither cleaner expects.
BatchRows ==
    {[date |-> Word("2025-01-02T03:04:07.000008"),
      scrape_date |-> Word("2025-01-02T03:04:05.000006"),
      position |-> pos,
      price |-> price,
      is_carousel |-> Bool(TRUE),
      api_source |-> Word("scrapingdog")] :
        pos \in {Num(3), Word("x"), None},
        price \in {Str(<<"7">>), None}}

BatchOrder ==
    <<"scrape_date", "date", "position", "price", "is_carousel", "api_source">>

\* The frames handed to the cleaners: any columns of the model, one row or
\* more.
BatchFrames ==
    {Frame(SelectSeq(BatchOrder, LAMBDA c : c \in cs),
           [i \in DOMAIN rows |-> [c \in cs |-> rows[i][c]]]) :
        cs \in (SUBSET Range(BatchOrder)) \ {{}},
        rows \in TextsUpTo(BatchRows, MaxRows)}

CleanInit ==
    /\ c_fn \in {"clean_popular_products", "clean_shopping_tab"}
    /\ c_arg \in BatchFrames
    /\ c_pc = "start"
    /\ c_out = <<>>

\* df_clean = clean_popular_products(df)
CallCleanPopular ==
    /\ UNCHANGED notCallVars
    /\ c_pc = "start"
    /\ c_fn = "clean_popular_products"
    /\ c_out' = clean_popular_products(c_arg)
    /\ c_pc' = "returned"
    /\ UNCHANGED <<c_fn, c_arg>>

\* df_clean = clean_shopping_tab(df)
CallCleanShopping ==
    /\ UNCHANGED notCallVars
    /\ c_pc = "start"
    /\ c_fn = "clean_shopping_tab"
    /\ c_out' = clean_shopping_tab(c_arg)
    /\ c_pc' = "returned"
    /\ UNCHANGED <<c_fn, c_arg>>

CleanNext ==
    \/ CallCleanPopular
    \/ CallCleanShopping

\* The characters of the reviews texts of the model.
ReviewChars == {"7", ".", "K", "M", "i", "n", "f"}

\* The values handed to parse_reviews_count: None, a number, any text.
ReviewsInit ==
    /\ c_fn = "parse_reviews_count"
    /\ c_arg \in {None, Num(7)} \cup {Str(s) : s \in SeqsUpTo(ReviewChars, MaxText)}
    /\ c_pc = "start"
    /\ c_out = <<>>

\* reviews_count = parse_reviews_count(value)
CallParseReviews ==
    /\ UNCHANGED notCallVars
    /\ c_pc = "start"
    /\ c_fn = "parse_reviews_count"
    /\ LET r == parse_reviews_count(c_arg)
       IN /\ c_pc' = IF r.raised THEN "raised" ELSE "returned"
          /\ c_out' = r.val
    /\ UNCHANGED <<c_fn, c_arg>>

\* The characters of the category and value texts of the model.
PartChars == {"a", ",", " "}

\* A text with no ", " and no " - " inside.
PlainPart(text) ==
    Find(text, <<",", " ">>) = 0 /\ Find(text, <<" ", "-", " ">>) = 0

PlainParts == {text \in TextsUpTo(PartChars, MaxPart) : PlainPart(text)}

\* The (category, value) pairs handed to the encoding.
FiltersInit ==
    /\ c_fn = "filters_raw"
    /\ c_arg \in SeqsUpTo(PlainParts \X PlainParts, MaxPairs)
    /\ c_pc = "start"
    /\ c_out = <<>>

\* The filters of an answer in which every pair is a filter with one value.
FiltersOfPairs(pairs) ==
    [i \in DOMAIN pairs |->
        [name |-> Str(pairs[i][1]),
         values |-> PyList(<<[name |-> Str(pairs[i][2])]>>)]]

\* filters_str as fetch_aus_results_with_filters builds it, stored as
\* filters_raw and read back by parse_filters_raw.
CallFilterRoundTrip ==
    /\ UNCHANGED notCallVars
    /\ c_pc = "start"
    /\ c_fn = "filters_raw"
    /\ c_out' = parse_filters_raw(filters_str_of(FiltersOfPairs(c_arg)))
    /\ c_pc' = "returned"
    /\ UNCHANGED <<c_fn, c_arg>>

----------------------------------------------------------------------------
(* main.py: the two stages of one campaign, scraper and upload together *)

\* What the providers answer for the keywords of a stage: nothing for any of
\* them, or one item for each.
StageOutcomes ==
    {[fault |-> FALSE, primary |-> Failure, secondary |-> Failure],
     [fault |-> FALSE, primary |-> Payload(<<ItemT>>), secondary |-> Failure]}

\* popular_scrape(keywords) is called first.
StageInit ==
    /\ DispInit
    /\ d_scraper = "popular"
    /\ \E o \in StageOutcomes : \A i \in DOMAIN d_outcome : d_outcome[i] = o

\* The cleaned records main hands to upload_scrape_data.
StageRecords ==
    IF d_scraper = "popular"
    THEN to_dict(clean_popular_products(DataFrame(d_return, PopularKeys)))
    ELSE to_dict(clean_shopping_tab(DataFrame(d_return, ShoppingKeys)))

\* The scraper has returned: `if not df.empty:` the frame is cleaned and
\* upload_scrape_data is called with it.
StageUpload ==
    /\ d_pc = "done"
    /\ upl_pc = "idle"
    /\ d_return # <<>>
    /\ d_pc' = "uploading"
    /\ records' = StageRecords
    /\ upl_args' = [campaign_id |-> 1,
                    scrape_type_id |-> IF d_scraper = "popular" THEN 1 ELSE 2]
    /\ upl_pc' = "start"
    /\ upl_result' = [kind |-> "running"]
    /\ UNCHANGED <<main_insert_values, returned, inserted_ids, filter_rows,
                   txn_parent, txn_filter, db_parent, db_filter>>
    /\ UNCHANGED <<d_scraper, d_keywords, d_parallel, d_outcome,
                   PARALLEL_REQUESTS, d_i, d_task, d_future, all_records,
                   d_order, d_return>>
    /\ UNCHANGED <<fetchVars, mainVars, pipeVars, callVars, notifyVars>>

\* The popular stage is over (nothing scraped, or the upload returned or
\* raised into main's except clause): scrape_shopping_tab_for_keywords is
\* called with the same keywords.
StageShopping ==
    /\ d_scraper = "popular"
    /\ \/ d_pc = "done" /\ d_return = <<>> /\ upl_pc = "idle"
       \/ d_pc = "uploading" /\ upl_pc = "done"
    /\ d_scraper' = "shopping"
    /\ d_pc' = "start"
    /\ d_i' = 1
    /\ d_task' = <<>>
    /\ d_future' = <<>>
    /\ all_records' = <<>>
    /\ d_order' = <<>>
    /\ d_return' = <<>>
    /\ records' = <<>>
    /\ upl_pc' = "idle"
    /\ main_insert_values' = <<>>
    /\ returned' = None
    /\ inserted_ids' = <<>>
    /\ filter_rows' = <<>>
    /\ upl_result' = [kind |-> "idle"]
    /\ UNCHANGED <<upl_args, txn_parent, txn_filter, db_parent, db_filter>>
    /\ UNCHANGED <<d_keywords, d_parallel, d_outcome, PARALLEL_REQUESTS>>
    /\ UNCHANGED <<fetchVars, mainVars, pipeVars, callVars, notifyVars>>

StageNext ==
    \/ DispNext
    \/ UplNext
    \/ StageUpload
    \/ StageShopping

----------------------------------------------------------------------------
(* slack_notifier.py: SlackNotifier.send_scraping_summary *)

\* The name of the temporary CSV file.
TempCsv == Str(<<"f", ".", "c", "s", "v">>)

\* generate_failed_popular_products_csv: one row per keyword listed in
\* keywords_with_no_popular, campaign after campaign.
RECURSIVE failed_keywords(_)
failed_keywords(processed) ==
    IF processed = <<>> THEN <<>>
    ELSE LET campaign == processed[1]
         IN [i \in DOMAIN campaign.keywords_with_no_popular |->
                [campaign_id |-> campaign.campaign_id,
                 keyword |-> campaign.keywords_with_no_popular[i]]]
            \o failed_keywords(Tail(processed))

\* _build_summary_blocks plus the two blocks announcing the attachment.
SummaryBlocks(path, count) ==
    IF path # None /\ count > 0
    THEN <<"summary", "divider", "failed_keywords_report">>
    ELSE <<"summary">>

\* The entries main can leave for campaign i: it has its keywords, and its
\* popular scrape left none or all of them without result.
SummaryEntries(i) ==
    {UpdateFirst(<<NewCampaign(i, SubSeq(Keywords, 1, k))>>, i, 0, 0, no)[1] :
        k \in 1..MaxCampaignKeywords, no \in {<<>>, <<Keywords[1]>>}}

\* The summaries main can hand over.
SummarySet ==
    UNION {{f \in [1..n -> UNION {SummaryEntries(i) : i \in 1..n}] :
               \A i \in 1..n : f[i] \in SummaryEntries(i)}
           : n \in 0..MaxCampaigns}

NotifyInit ==
    /\ n_token \in BOOLEAN
    /\ summary_data \in SummarySet
    /\ n_pc = "start"
    /\ csv_path = None
    /\ failed_count = 0
    /\ message_blocks = <<>>
    /\ n_channel = <<>>
    /\ n_files = {}
    /\ n_return = None

\* `if not self.token: return False`, else the CSV and the blocks are built;
\* an exception there is caught by the outer except clause.
NotifyPrepare ==
    /\ UNCHANGED notNotifyVars
    /\ n_pc = "start"
    /\ IF ~n_token
       THEN /\ n_return' = Bool(FALSE)
            /\ n_pc' = "done"
            /\ UNCHANGED <<csv_path, failed_count, message_blocks, n_files>>
       ELSE LET failed == failed_keywords(summary_data)
            IN \/ /\ csv_path' = IF failed = <<>> THEN None ELSE TempCsv
                  /\ failed_count' = Len(failed)
                  /\ n_files' = IF failed = <<>> THEN {} ELSE {TempCsv}
                  /\ message_blocks' = SummaryBlocks(csv_path', failed_count')
                  /\ n_pc' = "webclient"
                  /\ UNCHANGED n_return
               \/ /\ failed # <<>>
                  /\ n_return' = Bool(FALSE)
                  /\ n_pc' = "finally"
                  /\ UNCHANGED <<csv_path, failed_count, message_blocks,
                                 n_files>>
    /\ UNCHANGED <<n_token, summary_data, n_channel>>

\* self.client.chat_postMessage(...): the message is posted, or the call
\* raises and the fallback is tried. With no failed keyword the method
\* returns True right after the post.
ChatPostMessage ==
    /\ UNCHANGED notNotifyVars
    /\ n_pc = "webclient"
    /\ \/ /\ n_channel' = Append(n_channel,
                                 [via |-> "webclient", blocks |-> message_blocks])
          /\ IF csv_path # None /\ failed_count > 0
             THEN n_pc' = "upload" /\ UNCHANGED n_return
             ELSE n_pc' = "finally" /\ n_return' = Bool(TRUE)
       \/ /\ n_pc' = "requests"
          /\ UNCHANGED <<n_channel, n_return>>
    /\ UNCHANGED <<n_token, summary_data, csv_path, failed_count,
                   message_blocks, n_files>>

\* self.client.files_upload_v2(...) as a reply to the message: the file is
\* uploaded and the method returns True, or the call raises inside the
\* WebClient try: its except clause logs, and control falls through to the
\* requests fallback.
FilesUpload ==
    /\ UNCHANGED notNotifyVars
    /\ n_pc = "upload"
    /\ \/ /\ n_channel' = Append(n_channel,
                                 [via |-> "webclient", blocks |-> <<"csv">>])
          /\ n_return' = Bool(TRUE)
          /\ n_pc' = "finally"
       \/ /\ n_pc' = "requests"
          /\ UNCHANGED <<n_channel, n_return>>
    /\ UNCHANGED <<n_token, summary_data, csv_path, failed_count,
                   message_blocks, n_files>>

\* _send_via_requests(message_blocks): the post is accepted (status 200 and
\* ok), or refused by the API, or answered with another status, or raises.
SendViaRequests ==
    /\ UNCHANGED notNotifyVars
    /\ n_pc = "requests"
    /\ \E answer \in {"ok", "api_error", "http_error", "raised"} :
          /\ n_channel' = IF answer = "ok"
                          THEN Append(n_channel, [via |-> "requests",
                                                  blocks |-> message_blocks])
                          ELSE n_channel
          /\ n_return' = Bool(answer = "ok")
    /\ n_pc' = "finally"
    /\ UNCHANGED <<n_token, summary_data, csv_path, failed_count,
                   message_blocks, n_files>>

\* finally: the temporary file is removed if it exists; a failure to remove
\* it is logged.
NotifyCleanup ==
    /\ UNCHANGED notNotifyVars
    /\ n_pc = "finally"
    /\ \/ n_files' = n_files \ {csv_path}
       \/ /\ csv_path \in n_files
          /\ UNCHANGED n_files
    /\ n_pc' = "done"
    /\ UNCHANGED <<n_token, summary_data, csv_path, failed_count,
                   message_blocks, n_channel, n_return>>

NotifyNext ==
    \/ NotifyPrepare
    \/ ChatPostMessage
    \/ FilesUpload
    \/ SendViaRequests
    \/ NotifyCleanup

\* send_scraping_summary not running.
NotifyIdle ==
    /\ n_token = FALSE
    /\ summary_data = <<>>
    /\ n_pc = "idle"
    /\ csv_path = None
    /\ failed_count = 0
    /\ message_blocks = <<>>
    /\ n_channel = <<>>
    /\ n_files = {}
    /\ n_return = None

----------------------------------------------------------------------------
(* The specifications *)

\* One call of upload_scrape_data.
InitUpload == UplInit /\ FetchIdle /\ DispIdle /\ MainIdle /\ PipeIdle /\ CallIdle
    /\ NotifyIdle
SpecUpload == InitUpload /\ [][UplNext]_vars

\* One call of fetch_popular_products.
InitFetch == FetchInit /\ UplIdle /\ DispIdle /\ MainIdle /\ PipeIdle /\ CallIdle
    /\ NotifyIdle
SpecFetch == InitFetch /\ [][FetchNext]_vars

\* One call of scrape_for_keywords or scrape_shopping_tab_for_keywords.
InitDispatch == DispInit /\ UplIdle /\ FetchIdle /\ MainIdle /\ PipeIdle /\ CallIdle
    /\ NotifyIdle
SpecDispatch == InitDispatch /\ [][DispNext]_vars

\* One run of main().
InitMain == MainInit /\ UplIdle /\ FetchIdle /\ DispIdle /\ PipeIdle /\ CallIdle
    /\ NotifyIdle
SpecMain == InitMain /\ [][MainNext]_vars

\* One batch of one keyword, from the provider's answer to the parent INSERT.
InitPipeline == PipeInit /\ UplIdle /\ FetchIdle /\ DispIdle /\ MainIdle /\ CallIdle
    /\ NotifyIdle
SpecPipeline == InitPipeline /\ [][PipeNext]_vars

\* The popular and the shopping stage of one campaign.
InitStages ==
    StageInit /\ UplIdle /\ FetchIdle /\ MainIdle /\ PipeIdle /\ CallIdle
    /\ NotifyIdle
SpecStages == InitStages /\ [][StageNext]_vars

\* One call of SlackNotifier.send_scraping_summary.
InitNotify ==
    NotifyInit /\ UplIdle /\ FetchIdle /\ DispIdle /\ MainIdle /\ PipeIdle
    /\ CallIdle
SpecNotify == InitNotify /\ [][NotifyNext]_vars

\* One call of a cleaner on a frame.
InitClean ==
    CleanInit /\ UplIdle /\ FetchIdle /\ DispIdle /\ MainIdle /\ PipeIdle
    /\ NotifyIdle
SpecClean == InitClean /\ [][CleanNext]_vars

\* One call of parse_reviews_count.
InitReviews ==
    ReviewsInit /\ UplIdle /\ FetchIdle /\ DispIdle /\ MainIdle /\ PipeIdle
    /\ NotifyIdle
SpecReviews == InitReviews /\ [][CallParseReviews]_vars

\* One filters string written by the shopping-tab fetcher and read back.
InitFilters ==
    FiltersInit /\ UplIdle /\ FetchIdle /\ DispIdle /\ MainIdle /\ PipeIdle
    /\ NotifyIdle
SpecFilters == InitFilters /\ [][CallFilterRoundTrip]_vars

----------------------------------------------------------------------------
(* Properties of upload_scrape_data (checked under SpecUpload) *)

Returned == upl_pc = "done" /\ upl_result.kind = "returned"
Raised == upl_pc = "done" /\ upl_result.kind = "raised"

\* C1: a call with a non-empty batch either returns a list with exactly one id
\* per record or raises, whatever number and shape of id rows the parent INSERT
\* handed back; it never returns a list of another length.
C1_AllIdsOrRaise ==
    (upl_pc = "done" /\ records # <<>>) =>
        \/ upl_result.kind = "raised"
        \/ /\ upl_result.kind = "returned"
           /\ Len(upl_result.ids) = Len(records)

\* C1's case: the INSERT gave back fewer ids than rows and the call raised.
C1_Witness ==
    /\ Raised
    /\ upl_result.error = "RuntimeError"
    /\ Len(records) = 2
    /\ Len(NormalizeReturned(returned).ids) = 1

\* C2: the parent and the filter insert are one transaction. Nothing of the
\* batch is committed while the call runs; after a return every parent row and
\* every filter row of the batch is committed; after any exception none is.
C2_OneTransaction ==
    /\ upl_pc # "done" => (db_parent = <<>> /\ db_filter = <<>>)
    /\ Raised => (db_parent = <<>> /\ db_filter = <<>>)
    /\ Returned =>
          /\ Len(db_parent) = Len(records)
          /\ \A i \in DOMAIN db_parent : db_parent[i].row = main_insert_values[i]
          /\ db_filter = filter_rows
          /\ filter_rows = BuildFilterRows(records, inserted_ids)

\* C2's case: the parent rows were written, the filter insert then failed.
C2_Witness ==
    /\ Raised
    /\ upl_result.error = "DatabaseError"
    /\ filter_rows # <<>>
    /\ inserted_ids # <<>>
    /\ db_parent = <<>>

\* The parent INSERT returned one id per row, in the order of the rows, in one
\* of the row shapes of a cursor (a tuple, a bare int, a DictRow list).
OneIdPerRowInOrder(rows) ==
    /\ returned.t = "list"
    /\ Len(returned.v) = Len(rows)
    /\ \A i \in DOMAIN rows :
          returned.v[i] \in {PyTuple(<<Num(rows[i].id)>>), Num(rows[i].id),
                             PyList(<<Num(rows[i].id)>>)}

\* C3: when the parent INSERT returns one id per row in submission order, the
\* call returns those ids in that order, and each filter row it inserts carries
\* the id of a record whose own filters_raw parses to that (category, value):
\* no record's facets are stored under another record's id.
C3_RowIdCorrespondence ==
    (Returned /\ records # <<>> /\ OneIdPerRowInOrder(db_parent)) =>
        /\ upl_result.ids = [i \in 1..Len(records) |-> Num(db_parent[i].id)]
        /\ \A k \in DOMAIN db_filter :
              \E i \in DOMAIN records :
                  /\ db_filter[k].scrape_data_id = Num(db_parent[i].id)
                  /\ <<db_filter[k].filter_category, db_filter[k].filter_value>>
                        \in Range(parse_filters_raw(Get(records[i], "filters_raw")))

\* C3's case: two records with different facets, ids returned as DictRows.
C3_Witness ==
    /\ Returned
    /\ records = <<RecValued, RecPandas>>
    /\ OneIdPerRowInOrder(db_parent)
    /\ returned.v[1].t = "list"
    /\ Len(db_filter) = 3

IsNonEmptyStr(val) == val.t = "str" /\ val.s # <<>>
IsEmptyOrMissing(val) == val = None \/ val = Str(<<>>)

\* The row built for rec follows the NULL rule of the loader.
NullRule(rec, row) ==
    /\ Get(rec, "product_id") = Str(<<>>) => row.product_id = None
    /\ Get(rec, "link") = Str(<<>>) => row.link = None
    /\ IsNonEmptyStr(Get(rec, "product_id")) => row.product_id = rec.product_id
    /\ IsNonEmptyStr(Get(rec, "link")) => row.link = rec.link
    /\ \A col \in {"title", "merchant", "price_raw"} :
          /\ row[col] # None
          /\ IsEmptyOrMissing(Get(rec, col)) => row[col] = Str(<<>>)

\* C4: an empty-string product_id or link is stored as NULL, a non-empty one
\* verbatim; title, merchant and price_raw are never NULL, an empty or missing
\* one being stored as the empty string. Stated of the tuples handed to the
\* INSERT and of the committed rows.
C4_NullNormalization ==
    /\ \A i \in DOMAIN main_insert_values :
          NullRule(records[i], main_insert_values[i])
    /\ \A i \in DOMAIN db_parent : NullRule(records[i], db_parent[i].row)

\* C4's case: a committed batch with an all-empty and an all-valued record.
C4_Witness ==
    /\ Returned
    /\ records = <<RecEmpty, RecValued>>
    /\ db_parent[1].row.product_id = None
    /\ db_parent[1].row.title = Str(<<>>)
    /\ db_parent[2].row.link = Str(<<"l">>)

NumericColumns == {"position", "rating", "reviews", "price", "carousel_position"}

----------------------------------------------------------------------------
(* Properties of fetch_popular_products (checked under SpecFetch) *)

\* The number of records the primary provider yields for the keyword: none on
\* a failure, on an empty payload, or when an item breaks the adapter.
PrimaryYield ==
    IF f_primary.kind = "ok" /\ AllDicts(Take(f_primary.items, f_top_n))
    THEN Len(Take(f_primary.items, f_top_n))
    ELSE 0

Tagged(recs, api) == \A i \in DOMAIN recs : recs[i].api_source = Word(api)

----------------------------------------------------------------------------
(* Properties of the dispatchers (checked under SpecDispatch) *)

\* The records of the i-th keyword in a result list, in their order there.
OfKeyword(recs, i) ==
    LET Mine(r) == r.keyword = d_keywords[i]
    IN SelectSeq(recs, Mine)

\* What the fetch of the i-th keyword yields when it succeeds.
Fetched(i) ==
    IF d_scraper = "popular"
    THEN fetch_popular_products(d_keywords[i], TopNDefault,
                                d_outcome[i].primary, d_outcome[i].secondary)
    ELSE [k \in 1..Len(fetch_aus_results(d_outcome[i].primary)) |->
            [keyword |-> d_keywords[i],
             position |-> Get(fetch_aus_results(d_outcome[i].primary)[k], "position"),
             title |-> GetDefault(fetch_aus_results(d_outcome[i].primary)[k],
                                  "title", Str(<<>>))]]

\* The fetch of the i-th keyword raises an exception.
FetchRaises(i) ==
    \/ d_outcome[i].fault
    \/ d_scraper = "shopping" /\ ~AllDicts(fetch_aus_results(d_outcome[i].primary))

\* C7: in both dispatchers and both modes a keyword whose fetch raises or
\* returns nothing contributes no record and never aborts the batch: the call
\* returns, with all the records of every keyword whose fetch succeeded.
C7_KeywordFailureIsolated ==
    /\ d_pc # "aborted"
    /\ d_pc = "done" =>
          \A i \in DOMAIN d_keywords :
              OfKeyword(d_return, i) =
                  IF FetchRaises(i) THEN <<>> ELSE Fetched(i)

\* C7's case: a run that returned although one keyword raised, with the
\* records of another keyword in the result.
C7_Witness ==
    /\ d_pc = "done"
    /\ Len(d_keywords) >= 2
    /\ \E i, j \in DOMAIN d_keywords :
          /\ FetchRaises(i)
          /\ ~FetchRaises(j)
          /\ OfKeyword(d_return, j) # <<>>

RECURSIVE SequentialRun(_)
\* The list scrape_for_keywords(parallel=False) builds from the first n
\* keywords: process_keyword's lists, in keyword order.
SequentialRun(n) ==
    IF n = 0 THEN <<>>
    ELSE ExtendSequential(SequentialRun(n - 1), ProcessKeyword(n).recs)

BagOfSeq(s) == [x \in Range(s) |-> Cardinality({i \in DOMAIN s : s[i] = x})]

\* C8: for fixed per-keyword fetch outcomes, scrape_for_keywords with
\* parallel=True returns, under every interleaving of the workers, the same
\* multiset of records as with parallel=False.
C8_ParallelEqualsSequential ==
    (d_pc = "done" /\ d_scraper = "popular" /\ d_parallel) =>
        BagOfSeq(d_return) = BagOfSeq(SequentialRun(Len(d_keywords)))

\* C8's case: the pool ran, the results were merged out of keyword order, and
\* the list differs from the sequential one as a sequence.
C8_Witness ==
    /\ d_pc = "done"
    /\ d_scraper = "popular"
    /\ d_parallel
    /\ Len(d_keywords) = 3
    /\ d_order = <<3, 1, 2>>
    /\ Len(d_return) >= 3
    /\ d_return # SequentialRun(3)

\* The campaigns whose pass of the loop began, in the order they began.
Begun ==
    LET IsBegin(e) == e[1] = "begin"
        begins == SelectSeq(m_log, IsBegin)
    IN [i \in 1..Len(begins) |-> begins[i][2]]

\* The summary error a failure of a campaign's processing should leave.
ErrorOfFault(e) ==
    Error(CASE e[1] = "fault_keywords" -> "campaign_failed"
            [] e[1] = "fault_popular" -> "popular_failed"
            [] e[1] = "fault_shopping" -> "shopping_failed"
            [] OTHER -> "critical",
          e[2])

\* The failures of campaign processing that happened, as the errors they
\* should have left, in order.
CampaignFaults ==
    LET IsFault(e) == e[1] \in {"fault_keywords", "fault_popular", "fault_shopping"}
        faults == SelectSeq(m_log, IsFault)
    IN [i \in 1..Len(faults) |-> ErrorOfFault(faults[i])]

\* The errors of the summary that report a failure of campaign processing.
CampaignErrors ==
    LET IsFailure(e) ==
            e.kind \in {"campaign_failed", "popular_failed", "shopping_failed"}
    IN SelectSeq(errors, IsFailure)

LoopOver == m_pc \in {"finally", "send", "done"} /\ campaigns # <<>>

\* C9: every failure of a campaign's processing (keyword retrieval, a scraper,
\* the loader) is appended to the summary's errors, and the loop still goes
\* through every campaign of the list, in list order: a campaign with
\* keywords gets both scrapers run whatever failed before.
C9_CampaignFailureIsolated ==
    /\ CampaignErrors = CampaignFaults
    /\ Len(Begun) <= Len(campaigns)
    /\ Begun = SubSeq(campaigns, 1, Len(Begun))
    /\ LoopOver =>
          /\ Begun = campaigns
          /\ \A i \in DOMAIN campaigns_processed :
                /\ <<"popular", campaigns_processed[i].campaign_id>> \in Range(m_log)
                /\ <<"shopping", campaigns_processed[i].campaign_id>> \in Range(m_log)

\* C9's case: the first of two campaigns failed in both scrapes, and the
\* second was processed and its rows committed.
C9_Witness ==
    /\ m_pc = "done"
    /\ campaigns = <<1, 2>>
    /\ <<"fault_popular", 1>> \in Range(m_log)
    /\ <<"fault_shopping", 1>> \in Range(m_log)
    /\ Error("popular_failed", 1) \in Range(errors)
    /\ \E i \in DOMAIN m_committed :
          m_committed[i].campaign_id = 2 /\ m_committed[i].scrape_type_id = 1
    /\ \E i \in DOMAIN m_committed :
          m_committed[i].campaign_id = 2 /\ m_committed[i].scrape_type_id = 2

ListingFailed == <<"fault_campaigns", 0>> \in Range(m_log)

\* C10: no exception leaves main, main always has a next step until it
\* returns, and when it returns the summary is finalized and the last send
\* attempted was handed the finalized summary with every recorded error, the
\* critical one included when get_active_campaigns raised.
C10_AlwaysFinalizeAndSend ==
    /\ m_pc # "escaped"
    /\ m_pc \notin {"done", "idle"} => ENABLED MainNext
    /\ m_pc = "done" =>
          /\ end_time
          /\ m_sends # <<>>
          /\ m_sends[Len(m_sends)].end_time_set
          /\ m_sends[Len(m_sends)].errors = errors
          /\ ListingFailed => Error("critical", 0) \in Range(errors)

\* C10's case: get_active_campaigns raised, and so did the send.
C10_Witness ==
    /\ m_pc = "done"
    /\ ListingFailed
    /\ m_sends[Len(m_sends)].outcome = "raised"

\* C11: every error of a run that goes on, a keyword's fetch failure inside a
\* scraper included, leaves an entry in the errors handed to the notification.
C11_EveryErrorInSummary ==
    (m_pc = "done" /\ m_swallowed) =>
        \E i \in DOMAIN m_sends : m_sends[i].errors # <<>>

----------------------------------------------------------------------------
(* The path of one keyword's answer to the parent table *)

\* The run has handed its tuples to the parent INSERT.
Uploaded == p_pc = "done" /\ p_rows # <<>>

\* C12: every row inserted by a pipeline run, on the popular-products and on
\* the shopping-tab path alike, has a non-null scrape_date that is the
\* collection timestamp the fetcher put on the record.
C12_ScrapeDateIsCollectionTime ==
    Uploaded =>
        \A i \in DOMAIN p_rows :
            p_rows[i].scrape_date \in {UtcNow, Timestamp(UtcNow.s[1])}

\* C13: in every row inserted by a pipeline run, on either path,
\* has_product_page is true exactly when the record's link is non-empty.
C13_HasProductPageIffLink ==
    Uploaded =>
        \A i \in DOMAIN p_rows :
            p_rows[i].has_product_page = Bool(Truthy(p_records[i]["link"]))

\* C14: in every row inserted by a pipeline run position is an integer >= 0,
\* never NULL; where the position is the item's own (ValueSERP answers, on
\* either path) and the item carries none, the stored position is 0.
C14_PositionNeverNull ==
    Uploaded =>
        \A i \in DOMAIN p_rows :
            /\ p_rows[i].position.t = "num"
            /\ p_rows[i].position.n >= 0
            /\ (p_path # "scrapingdog" /\ "position" \notin DOMAIN p_items[i])
                    => p_rows[i].position = Num(0)

\* The item's price is a text that is no number.
UnparsedPrice(item) ==
    /\ "price" \in DOMAIN item
    /\ item["price"].t = "str"
    /\ ~is_number(item["price"])

\* C15: in every row inserted by a pipeline run, on either path, price_raw is
\* a string and is the fetcher's price_raw; the row of an item whose price
\* text is no number has price NULL and that text as its price_raw.
C15_PriceRawKeepsText ==
    Uploaded =>
        \A i \in DOMAIN p_rows :
            /\ p_rows[i].price_raw.t = "str"
            /\ p_rows[i].price_raw = p_records[i]["price_raw"]
            /\ UnparsedPrice(p_items[i]) =>
                    /\ p_rows[i].price = None
                    /\ p_rows[i].price_raw = p_items[i]["price"]

\* The frame of a popular-products scrape with records has been cleaned and
\* its API usage computed.
UsageComputed ==
    IsPopularPath(p_path) /\ p_pc \in {"cleaned", "done"} /\ p_records # <<>>

\* The number of records per provider tag.
RecordsPerTag(recs) ==
    [tag \in {recs[i]["api_source"] : i \in DOMAIN recs} |->
        Cardinality({i \in DOMAIN recs : recs[i]["api_source"] = tag})]

\* C17: the API-usage breakdown main computes for a campaign counts the
\* campaign's records per provider tag the fetcher put on them.
C17_UsageCountsProviderTags ==
    UsageComputed =>
        /\ DOMAIN p_usage.api_usage = DOMAIN RecordsPerTag(p_records)
        /\ \A tag \in DOMAIN p_usage.api_usage :
              p_usage.api_usage[tag] = RecordsPerTag(p_records)[tag]

----------------------------------------------------------------------------
(* The cleaners *)

CleanedPopular == c_fn = "clean_popular_products" /\ c_pc = "returned"

\* The batch has no column for an expected column: not under its name, and
\* for scrape_date not under the legacy name either.
AbsentFromBatch(df, c) ==
    /\ ~HasCol(df, c)
    /\ c = "scrape_date" => ~HasCol(df, "date")

\* C16: whatever columns the batch has, clean_popular_products returns the 14
\* expected columns in their fixed order and as many rows as it was given;
\* a column absent from the whole batch is null in every row, and every
\* extra column is dropped.
C16_ExactColumnsMissingNull ==
    CleanedPopular =>
        /\ c_out.cols = expected_cols
        /\ Len(c_out.rows) = Len(c_arg.rows)
        /\ \A i \in DOMAIN c_out.rows :
              /\ DOMAIN c_out.rows[i] = Range(expected_cols)
              /\ \A c \in Range(expected_cols) :
                    AbsentFromBatch(c_arg, c) => IsNull(c_out.rows[i][c])

NumericFields == {"position", "reviews", "rating", "price"}

\* The cell of a batch for a field of a row: None when the batch has no such
\* column.
BatchCell(df, i, c) == IF HasCol(df, c) THEN df.rows[i][c] ELSE None

\* A cell that is missing or that no number can be made of.
Uncoercible(v) == IsNull(v) \/ (v.t = "str" /\ ~is_number(v))

\* C18: a cleaner raises no exception over a numeric field; in the frame it
\* returns, every numeric field (position, reviews, rating, price) of a row
\* whose cell was missing or not numeric-coercible is null, and the numeric
\* cells of the other rows and fields hold their numbers.
C18_UnparsedNumberIsNull ==
    /\ c_pc # "raised"
    /\ c_pc = "returned" =>
          /\ Len(c_out.rows) = Len(c_arg.rows)
          /\ \A i \in DOMAIN c_out.rows :
                \A c \in NumericFields \cap Range(c_out.cols) :
                    /\ Uncoercible(BatchCell(c_arg, i, c))
                            => IsNull(c_out.rows[i][c])
                    /\ BatchCell(c_arg, i, c).t = "num"
                            => c_out.rows[i][c] = BatchCell(c_arg, i, c)
                    /\ BatchCell(c_arg, i, c) = Str(<<"7">>)
                            => c_out.rows[i][c] = Num(7)

\* C18's case: a batch of two rows, the position of the first a text that is
\* no number and the position of the second a number, has been cleaned.
C18_Witness ==
    /\ c_pc = "returned"
    /\ Len(c_arg.rows) = 2
    /\ HasCol(c_arg, "position")
    /\ c_arg.rows[1]["position"] = Word("x")
    /\ c_arg.rows[2]["position"] = Num(3)
    /\ c_out.rows[1]["position"] = NaN
    /\ c_out.rows[2]["position"] = Num(3)

----------------------------------------------------------------------------
(* parse_reviews_count *)

ReviewsParsed == c_fn = "parse_reviews_count" /\ c_pc # "start"

\* C19: for every value parse_reviews_count returns an int and never raises:
\* "7.7K" gives 7700, "7.7M" gives 7700000, "77" gives 77, and an empty
\* text, None or a text that spells no number gives 0.
C19_ReviewsCountNeverRaises ==
    ReviewsParsed =>
        /\ c_pc = "returned"
        /\ c_out.t = "num"
        /\ c_arg = Str(<<"7", ".", "7", "K">>) => c_out = Num(7700)
        /\ c_arg = Str(<<"7", ".", "7", "M">>) => c_out = Num(7700000)
        /\ c_arg = Str(<<"7", "7">>) => c_out = Num(77)
        /\ c_arg \in {None, Str(<<>>), Str(<<"K">>), Str(<<"n", "n">>)}
                => c_out = Num(0)

----------------------------------------------------------------------------
(* The filter encoding *)

FiltersReadBack == c_fn = "filters_raw" /\ c_pc = "returned"

\* C20: for every list of (category, value) pairs whose texts hold no ", "
\* and no " - ", parse_filters_raw of the string that joins the
\* "category - value" segments with ", " is the list itself, in order.
C20_FilterRoundTrip ==
    FiltersReadBack =>
        /\ Len(c_out) = Len(c_arg)
        /\ \A i \in DOMAIN c_arg : c_out[i] = c_arg[i]

----------------------------------------------------------------------------
(* Provider-shape errors *)

\* The adapter has answered for the keyword.
Answered == p_pc \in {"fetched", "cleaned", "done"}

\* C21: an item with an oddly typed field costs no data: the adapter returns
\* a record for every item of the answer, and the reviews of an item whose
\* count float() accepts but int() does not are a number or null.
C21_ShapeErrorKeepsItems ==
    Answered =>
        /\ Len(p_records) = Len(p_items)
        /\ \A i \in DOMAIN p_records :
              p_records[i]["reviews"].t \in {"none", "num"}

----------------------------------------------------------------------------
(* The fallback threshold *)

\* The primary provider has answered with fewer records than the threshold.
PrimaryBelowThreshold ==
    /\ f_pc \in {"fallback", "sleep", "done"}
    /\ Len(fetch_popular_products_scrapingdog(f_keyword, f_top_n, f_primary))
            < FALLBACK_THRESHOLD

\* C22: when the primary provider returns fewer than FALLBACK_THRESHOLD
\* products for a keyword, fetch_popular_products tries the fallback provider.
C22_FallbackBelowThreshold ==
    PrimaryBelowThreshold =>
        (f_pc = "fallback" \/ "valueserp" \in Range(f_calls))

----------------------------------------------------------------------------
(* The inter-request delay *)

ProviderCalls == {"scrapingdog", "valueserp"}

\* C23: every provider call of a fetch, whether it succeeded or failed, is
\* followed by the inter-request delay before the next provider call: a
\* failed primary call is followed by the delay before the fallback call.
C23_DelayAfterEveryCall ==
    f_pc = "done" =>
        \A i \in DOMAIN f_calls :
            f_calls[i] \in ProviderCalls =>
                (i < Len(f_calls) /\ f_calls[i + 1] = "sleep")

----------------------------------------------------------------------------
(* The merge of the workers' lists *)

\* The pool branch of the dispatcher is running or has returned.
PoolRan == d_pc \in {"parallel", "done"} /\ d_task # <<>>

RECURSIVE MergedInOrder(_)
\* The lists of the keywords of an order of completion, one after the other,
\* each as process_keyword returned it.
MergedInOrder(order) ==
    IF order = <<>> THEN <<>>
    ELSE MergedInOrder(SubSeq(order, 1, Len(order) - 1))
            \o ProcessKeyword(order[Len(order)]).recs

\* C25: in parallel mode, under every interleaving of the workers, the shared
\* list holds the list of each collected keyword as one block, in the order
\* the adapter returned it; a worker only fills its own future, and the
\* list changes only when the dispatcher collects one.
C25_KeywordRecordsContiguous ==
    PoolRan =>
        /\ all_records = MergedInOrder(d_order)
        /\ d_pc = "done" => d_return = all_records

\* C25's case: the pool returned, and a keyword with two records was
\* collected after another keyword's records, out of keyword order.
C25_Witness ==
    /\ PoolRan
    /\ d_pc = "done"
    /\ Len(d_order) = 3
    /\ d_order[1] > d_order[2]
    /\ ProcessKeyword(d_order[1]).recs # <<>>
    /\ Len(ProcessKeyword(d_order[2]).recs) = 2
    /\ ProcessKeyword(d_order[3]).recs # <<>>

----------------------------------------------------------------------------
(* Fetching and writing never overlap *)

\* upload_scrape_data holds a connection: inside `with get_connection()`.
ConnectionOpen == upl_pc \in {"connected", "inserted", "zipped", "filtered"}

\* No worker of the dispatcher has work left or under way.
NoWorkerLeft ==
    /\ d_pc \notin {"start", "sequential", "parallel"}
    /\ \A i \in DOMAIN d_task : d_task[i] = "collected"

\* C24: a connection for upload_scrape_data is open only when every worker of
\* the dispatcher has terminated, for each scrape type; the rows of the open
\* transaction are those of the one upload under way, so no two uploads
\* overlap.
C24_NoWriterWhileFetching ==
    /\ ConnectionOpen => NoWorkerLeft
    /\ upl_pc \notin {"idle", "done"} => d_pc = "uploading"
    /\ \A i \in DOMAIN txn_parent :
          txn_parent[i].row.scrape_type_id = Num(upl_args.scrape_type_id)

\* C24's case: the pool ran three keywords, and the connection of the
\* shopping-tab upload is open with rows of the popular upload committed.
C24_Witness ==
    /\ ConnectionOpen
    /\ d_scraper = "shopping"
    /\ Len(d_task) = 3
    /\ db_parent # <<>>
    /\ txn_parent # <<>>


\* main() has ended, by `return` or by falling out of the finally block.
RunEnded == m_pc = "done"

\* C26: on every run of main the summary notification is sent exactly once,
\* whatever path the run takes (no active campaigns, campaigns processed,
\* critical error): when main has ended, send_scraping_summary has been
\* called once, and at no time has it been called twice.
C26_SummarySentOnce ==
    /\ Len(m_sends) <= 1
    /\ RunEnded => Len(m_sends) = 1

----------------------------------------------------------------------------
(* Properties of send_scraping_summary (checked under SpecNotify) *)

\* The posts of the summary message the channel received.
SummaryPosts == SelectSeq(n_channel, LAMBDA p : p.blocks[1] = "summary")

\* C27: one call of send_scraping_summary posts the summary message at most
\* once, whatever the WebClient post, the CSV upload and the requests
\* fallback do; a post by the fallback happens only if the WebClient post did
\* not succeed.
C27_SummaryPostedAtMostOnce ==
    /\ Len(SummaryPosts) <= 1
    /\ \A i, j \in DOMAIN n_channel :
          ~(n_channel[i].via = "webclient" /\ n_channel[i].blocks[1] = "summary"
            /\ n_channel[j].via = "requests")

----------------------------------------------------------------------------
(* The summary against what was committed (checked under SpecMain) *)

\* The summary has been handed to send_scraping_summary.
SummarySent == m_sends # <<>>

\* The scrape_data rows this run committed for a campaign and a scrape type.
CommittedRows(campaign_id, scrape_type_id) ==
    Cardinality({j \in DOMAIN m_committed :
                    /\ m_committed[j].campaign_id = campaign_id
                    /\ m_committed[j].scrape_type_id = scrape_type_id})

\* C28: for every campaign processed, the popular and shopping counts of
\* the summary equal the number of parent rows committed for the campaign
\* and scrape type in this run: a count is positive only once the batch is
\* committed, and a failed batch is reported as 0.
C28_CountsAreCommittedRows ==
    \A i \in DOMAIN campaigns_processed :
       LET c == campaigns_processed[i]
       IN /\ SummarySent => c.updated
          /\ c.popular_products_found \in {0, CommittedRows(c.campaign_id, 1)}
          /\ c.shopping_products_found \in {0, CommittedRows(c.campaign_id, 2)}
          /\ c.updated =>
                /\ c.popular_products_found = CommittedRows(c.campaign_id, 1)
                /\ c.shopping_products_found = CommittedRows(c.campaign_id, 2)

\* C28's case: the summary was sent after two campaigns; one had its popular
\* batch committed and its shopping upload fail, the other committed both.
C28_Witness ==
    /\ SummarySent
    /\ \E i, j \in DOMAIN campaigns_processed :
          /\ campaigns_processed[i].popular_products_found > 0
          /\ campaigns_processed[i].shopping_products_found = 0
          /\ <<"fault_shopping", campaigns_processed[i].campaign_id>>
                \in Range(m_log)
          /\ campaigns_processed[j].popular_products_found > 0
          /\ campaigns_processed[j].shopping_products_found > 0

RECURSIVE SumSeq(_)
SumSeq(ns) == IF ns = <<>> THEN 0 ELSE Head(ns) + SumSeq(Tail(ns))

\* sum(c.get(field, 0) for c in campaigns), as _build_summary_blocks does.
SumOfKeywordCount ==
    SumSeq([i \in DOMAIN campaigns_processed |->
               campaigns_processed[i].keyword_count])
SumOfPopularFound ==
    SumSeq([i \in DOMAIN campaigns_processed |->
               campaigns_processed[i].popular_products_found])
SumOfShoppingFound ==
    SumSeq([i \in DOMAIN campaigns_processed |->
               campaigns_processed[i].shopping_products_found])

\* C29: after any sequence of add_campaign and update_campaign_results calls
\* main makes over campaigns with distinct ids, total_keywords is the sum of
\* keyword_count over campaigns_processed, and total_popular_products and
\* total_shopping_products are the sums of popular_products_found and
\* shopping_products_found.
C29_TotalsAreSums ==
    /\ total_keywords = SumOfKeywordCount
    /\ total_popular_products = SumOfPopularFound
    /\ total_shopping_products = SumOfShoppingFound

\* C29's case: two campaigns were added and updated, with products of both
\* kinds found.
C29_Witness ==
    /\ Len(campaigns_processed) = 2
    /\ \A i \in DOMAIN campaigns_processed : campaigns_processed[i].updated
    /\ campaigns_processed[1].popular_products_found > 0
    /\ campaigns_processed[2].shopping_products_found > 0
    /\ total_keywords > 2

\* A popular-products row of the keyword was committed for the campaign.
PopularCommitted(campaign_id, kw) ==
    \E j \in DOMAIN m_committed :
       /\ m_committed[j].campaign_id = campaign_id
       /\ m_committed[j].scrape_type_id = 1
       /\ m_committed[j].keyword = kw

\* C30: for every campaign recorded in the summary, a keyword of the
\* campaign is listed in keywords_with_no_popular if and only if no
\* popular-products row of that keyword was committed for the campaign in
\* this run.
C30_ListedIffNothingCommitted ==
    \A i \in DOMAIN campaigns_processed :
       LET c == campaigns_processed[i]
       IN c.updated =>
             /\ Range(c.keywords_with_no_popular) \subseteq Range(c.keywords)
             /\ \A k \in DOMAIN c.keywords :
                   c.keywords[k] \in Range(c.keywords_with_no_popular)
                      <=> ~PopularCommitted(c.campaign_id, c.keywords[k])

\* C30's case: the summary was sent with a campaign of two keywords of which
\* one had a row committed and the other is listed, and a campaign whose
\* popular scrape or upload failed and which lists its keywords.
C30_Witness ==
    /\ SummarySent
    /\ \E i, j \in DOMAIN campaigns_processed :
          /\ Len(campaigns_processed[i].keywords) = 2
          /\ Len(campaigns_processed[i].keywords_with_no_popular) = 1
          /\ campaigns_processed[i].popular_products_found = 1
          /\ campaigns_processed[j].keywords_with_no_popular # <<>>
          /\ <<"fault_popular", campaigns_processed[j].campaign_id>>
                \in Range(m_log)

====
